---- MODULE Spec2Model ----
(***************************************************************************)
(* A model of rpipe (rp, "rust pipe"): the condition engine, the exit-code *)
(* mapping, the run loop with its lazy Pipe, the argv and token parsers    *)
(* and the Replace operator.                                               *)
(*                                                                         *)
(* Text is modelled as Rust models it: a record is a sequence of Unicode   *)
(* scalar values (code points, as integers) and a &str is its UTF-8 byte   *)
(* sequence; byte offsets, char boundaries and case mapping are computed   *)
(* on those bytes, so that a length, a slice or a case fold can go wrong.  *)
(***************************************************************************)
EXTENDS Integers, Sequences, FiniteSets, TLC

VARIABLES
    cText,      \* SpecCond: the record under test (code points)
    cCond,      \* SpecCond: the Condition
    cPc,        \* SpecCond: "ready", or "tested" once Condition::test returned
    cRes,       \* SpecCond: the boolean Condition::test returned
    eKinds,     \* SpecErr: the error kind each of two runs ends with
    ePc,        \* SpecErr: where each run is in RpErr::termination
    eCode,      \* SpecErr: the exit code each run handed to the OS
    rText,      \* SpecReplace: the record (code points)
    rArg,       \* SpecReplace: Op::Replace { from, to, count, nocase }
    rConfigs,   \* SpecReplace: the global configs (a set of Config values)
    rPc,        \* SpecReplace: "ready", "once", "twice"
    rFn,        \* SpecReplace: what replace_with_count_and_nocase returned for the record
    rOut,       \* SpecReplace: the record after the Replace stage of the pipe
    rOut2,      \* SpecReplace: rOut after a second, identical Replace stage
    nCmd,       \* SpecRun: the parsed command line [input, ops, output, configs]
    nPc,        \* SpecRun: where run() is: "input", "wrap", "output", "done", "aborted"
    nIdx,       \* SpecRun: the index of the next op the run loop wraps
    nPipe,      \* SpecRun: the Pipe built so far [src, stages]
    nSinks,     \* SpecRun: the lines written so far [stdout, peek, out]
    nPulled,    \* SpecRun: how many records have been pulled from the input
    nErr,       \* SpecRun: the RpErr kind the run terminated with, or "none"
    aMode,      \* SpecArgs: "argv", or "eval" when the configs hold Config::Eval
    aArgs,      \* SpecArgs: the argv tokens after the configs
    aToken,     \* SpecArgs: the words of the --eval token, None when it is missing
    aRest,      \* SpecArgs: the tokens the Peekable iterator still holds
    aPc,        \* SpecArgs: "input", "ops", "output", "finish", "eval", "done"
    aParts,     \* SpecArgs: the Input, ops and Output parsed so far
    aConsumed,  \* SpecArgs: how many tokens the parsers have consumed
    aRes,       \* SpecArgs: what the parser returned
    tText,      \* SpecToken: the command text (a sequence of characters)
    tPc,        \* SpecToken: "ready", or "parsed" once parse_input returned
    tRes,       \* SpecToken: the IResult parse_input returned
    mText,      \* SpecTrim: the record handed to TrimArg::trim (code points)
    mPattern,   \* SpecTrim: the pattern the three TrimArg are built from [kind, pattern, nocase]
    mConfigs,   \* SpecTrim: the global configs (a set of Config values)
    mPc,        \* SpecTrim: "ready", then which of Both, Head and Head-then-Tail have run
    mBoth,      \* SpecTrim: the record trimmed by the TrimArg with TrimPos-Both, None before
    mHead,      \* SpecTrim: the record trimmed by the TrimArg with TrimPos-Head, None before
    mHeadTail,  \* SpecTrim: mHead trimmed by the TrimArg with TrimPos-Tail, None before
    oIn,        \* SpecOp: the records the source of the pipe yields
    oOp,        \* SpecOp: the Op that Op::wrap puts on the pipe
    oConfigs,   \* SpecOp: the global configs (a set of Config values)
    oPc,        \* SpecOp: "wrap", "pull", "done" (next() returned None), "stopped" (pipe dropped), "aborted"
    oIter,      \* SpecOp: the state of the iterator Op::wrap built [pos, seen, flag, buf]
    oOut,       \* SpecOp: the records the consumer pulled out of the stage so far
    oPeek,      \* SpecOp: the lines the closure of a Peek stage has written
    iText,      \* SpecInput: the command text of the input (a sequence of characters)
    iBuild,     \* SpecInput: whether the build checks integer overflow ("debug") or wraps ("release")
    iStdin,     \* SpecInput: the results of the reads of standard input, in order
    iDisk,      \* SpecInput: the files on disk [file name -> can it be opened, results of the reads]
    iConfigs,   \* SpecInput: the global configs (a set of Config values)
    iPc,        \* SpecInput: "parse", "try_into", "pull", "done", "terminated", "panicked"
    iInput,     \* SpecInput: the Input parse_input returned
    iIter,      \* SpecInput: the state of the iterator Input::try_into built
    iOut,       \* SpecInput: the records pulled out of the pipe so far
    iErr        \* SpecInput: the RpErr kind the process terminated with, or "none"

condVars == <<cText, cCond, cPc, cRes>>
errVars == <<eKinds, ePc, eCode>>
replVars == <<rText, rArg, rConfigs, rPc, rFn, rOut, rOut2>>
runVars == <<nCmd, nPc, nIdx, nPipe, nSinks, nPulled, nErr>>
argsVars == <<aMode, aArgs, aToken, aRest, aPc, aParts, aConsumed, aRes>>
tokenVars == <<tText, tPc, tRes>>
trimVars == <<mText, mPattern, mConfigs, mPc, mBoth, mHead, mHeadTail>>
opVars == <<oIn, oOp, oConfigs, oPc, oIter, oOut, oPeek>>
inputVars == <<iText, iBuild, iStdin, iDisk, iConfigs, iPc, iInput, iIter, iOut, iErr>>
vars == <<condVars, errVars, replVars, runVars, argsVars, tokenVars, trimVars, opVars, inputVars>>

\* The variables of the other parts of the program, untouched by each part.
othersCond == <<errVars, replVars, runVars, argsVars, tokenVars, trimVars, opVars, inputVars>>
othersErr == <<condVars, replVars, runVars, argsVars, tokenVars, trimVars, opVars, inputVars>>
othersRepl == <<condVars, errVars, runVars, argsVars, tokenVars, trimVars, opVars, inputVars>>
othersRun == <<condVars, errVars, replVars, argsVars, tokenVars, trimVars, opVars, inputVars>>
othersArgs == <<condVars, errVars, replVars, runVars, tokenVars, trimVars, opVars, inputVars>>
othersToken == <<condVars, errVars, replVars, runVars, argsVars, trimVars, opVars, inputVars>>
othersTrim == <<condVars, errVars, replVars, runVars, argsVars, tokenVars, opVars, inputVars>>
othersOp == <<condVars, errVars, replVars, runVars, argsVars, tokenVars, trimVars, inputVars>>
othersInput == <<condVars, errVars, replVars, runVars, argsVars, tokenVars, trimVars, opVars>>

(***************************************************************************)
(* Bounds of the model.                                                    *)
(***************************************************************************)
MaxTextLen == 3
MaxLenBound == 2

\* Option<T>: None is the empty set, Some(v) is {v}.
None == {}
Some(v) == {v}

Range(f) == {f[i] : i \in DOMAIN f}

RECURSIVE SeqsUpTo(_, _)
SeqsUpTo(S, n) ==
    IF n = 0 THEN {<<>>}
    ELSE LET shorter == SeqsUpTo(S, n - 1)
         IN shorter \cup {Append(s, x) : s \in {t \in shorter : Len(t) = n - 1}, x \in S}

(***************************************************************************)
(* Text: code points and their UTF-8 encoding.                             *)
(***************************************************************************)
\* The scalar values the records of the model are made of: ASCII letters in both
\* cases, digits, '.', U+00E9 (two bytes), U+0130 (two bytes, lowercases to
\* 'i' + U+0307, three bytes) and U+0307 (two bytes).
Ch == [a |-> 97, A |-> 65, b |-> 98, B |-> 66, d3 |-> 51, d7 |-> 55, dot |-> 46,
       eacute |-> 233, Idot |-> 304, i |-> 105, combdot |-> 775, sp |-> 32,
       x |-> 120, Eacute |-> 201, d1 |-> 49, comma |-> 44,
       lbracket |-> 91, rbracket |-> 93, d5 |-> 53]

Utf8Char(c) ==
    IF c < 128 THEN <<c>>
    ELSE IF c < 2048 THEN <<192 + (c \div 64), 128 + (c % 64)>>
    ELSE <<224 + (c \div 4096), 128 + ((c \div 64) % 64), 128 + (c % 64)>>

RECURSIVE Utf8(_)
Utf8(s) == IF s = <<>> THEN <<>> ELSE Utf8Char(Head(s)) \o Utf8(Tail(s))

IsContinuationByte(b) == b >= 128 /\ b < 192

\* str::chars().count(): the bytes that start a scalar value.
chars_count(bytes) == Cardinality({i \in 1..Len(bytes) : ~IsContinuationByte(bytes[i])})

\* str::len(): the bytes.
bytes_len(bytes) == Len(bytes)

(***************************************************************************)
(* Num: the integer-or-finite-float value a record parses to.  A value is  *)
(* num/den with den a power of ten.                                        *)
(***************************************************************************)
IsDigit(c) == c >= 48 /\ c <= 57

RECURSIVE DigitsValue(_)
DigitsValue(s) == IF s = <<>> THEN 0 ELSE DigitsValue(SubSeq(s, 1, Len(s) - 1)) * 10 + (s[Len(s)] - 48)

RECURSIVE Pow10(_)
Pow10(n) == IF n = 0 THEN 1 ELSE 10 * Pow10(n - 1)

NumFail == [ok |-> FALSE, int |-> FALSE, num |-> 0, den |-> 1]

\* str::parse::<Num>(): Integer first, then a finite Float in decimal notation.
parse_num(s) ==
    LET dots == {i \in 1..Len(s) : s[i] = Ch.dot}
        digits == {i \in 1..Len(s) : IsDigit(s[i])}
    IN IF digits = {} \/ (dots \cup digits) # 1..Len(s) THEN NumFail
       ELSE IF dots = {} THEN [ok |-> TRUE, int |-> TRUE, num |-> DigitsValue(s), den |-> 1]
       ELSE IF Cardinality(dots) > 1 THEN NumFail
       ELSE LET d == CHOOSE i \in dots : TRUE
                whole == SubSeq(s, 1, d - 1)
                frac == SubSeq(s, d + 1, Len(s))
            IN [ok |-> TRUE, int |-> FALSE,
                num |-> DigitsValue(whole) * Pow10(Len(frac)) + DigitsValue(frac),
                den |-> Pow10(Len(frac))]

\* Num's PartialOrd / PartialEq: by value, across Integer and Float.
num_ge(a, b) == a.num * b.den >= b.num * a.den
num_le(a, b) == a.num * b.den <= b.num * a.den
num_eq(a, b) == a.num * b.den = b.num * a.den

num_from(i) == [ok |-> TRUE, int |-> TRUE, num |-> i, den |-> 1]

(***************************************************************************)
(* Condition engine (condition.rs).                                        *)
(***************************************************************************)
\* Option::map_or(true, f) on a bound is \A v \in opt : f(v).
select_mutant_bytes(sel, input) ==
    CASE sel.kind = "TextLenRange" ->
            LET len == bytes_len(Utf8(input))
            IN (\A m \in sel.min : len >= m) /\ (\A m \in sel.max : len <= m)
      [] OTHER -> FALSE

select(sel, input) ==
    CASE sel.kind = "TextLenRange" ->
            LET len == chars_count(Utf8(input))
            IN (\A m \in sel.min : len >= m) /\ (\A m \in sel.max : len <= m)
      [] sel.kind = "TextLenSpec" -> chars_count(Utf8(input)) = sel.spec
      [] sel.kind = "NumRange" ->
            LET i == parse_num(input)
            IN IF i.ok
               THEN (\A m \in sel.min : num_ge(i, num_from(m)))
                    /\ (\A m \in sel.max : num_le(i, num_from(m)))
               ELSE FALSE
      [] sel.kind = "NumSpec" ->
            LET i == parse_num(input)
            IN IF i.ok THEN num_eq(i, num_from(sel.spec)) ELSE FALSE
      [] sel.kind = "Ascii" ->
            IF sel.ascii THEN \A i \in 1..Len(input) : input[i] < 128
            ELSE \A i \in 1..Len(input) : input[i] >= 128

test_mutant_no_negation(cond, input) == select(cond.select, input)

test(cond, input) ==
    IF cond.yes THEN select(cond.select, input) ELSE ~select(cond.select, input)

OptBounds == {None} \cup {Some(v) : v \in 0..MaxLenBound}

Selects ==
    [kind : {"TextLenRange"}, min : OptBounds, max : OptBounds, spec : {0}]
    \cup [kind : {"TextLenSpec"}, min : {None}, max : {None}, spec : 0..MaxLenBound]
    \cup [kind : {"NumRange"}, min : OptBounds, max : OptBounds, spec : {0}]
    \cup [kind : {"NumSpec"}, min : {None}, max : {None}, spec : 0..MaxLenBound]

\* Condition::new(select, not)
Conditions == [yes : BOOLEAN, select : Selects]

CondAlphabet == {Ch.a, Ch.d3, Ch.dot, Ch.eacute}
CondTexts == SeqsUpTo(CondAlphabet, MaxTextLen)

IdleCond == cText = <<>> /\ cCond = <<>> /\ cPc = "idle" /\ cRes = FALSE
IdleErr == eKinds = <<>> /\ ePc = <<>> /\ eCode = <<>>
IdleRepl ==
    /\ rText = <<>> /\ rArg = <<>> /\ rConfigs = {} /\ rPc = "idle"
    /\ rFn = <<>> /\ rOut = <<>> /\ rOut2 = <<>>
IdleRun ==
    /\ nCmd = <<>> /\ nPc = "idle" /\ nIdx = 0 /\ nPipe = <<>>
    /\ nSinks = <<>> /\ nPulled = 0 /\ nErr = "none"
IdleArgs ==
    /\ aMode = "idle" /\ aArgs = <<>> /\ aToken = {} /\ aRest = <<>> /\ aPc = "idle"
    /\ aParts = <<>> /\ aConsumed = 0 /\ aRes = <<>>
IdleToken == tText = <<>> /\ tPc = "idle" /\ tRes = <<>>
IdleTrim ==
    /\ mText = <<>>
    /\ mPattern = <<>>
    /\ mConfigs = {}
    /\ mPc = "idle"
    /\ mBoth = {}
    /\ mHead = {}
    /\ mHeadTail = {}
IdleOp ==
    /\ oIn = <<>>
    /\ oOp = <<>>
    /\ oConfigs = {}
    /\ oPc = "idle"
    /\ oIter = <<>>
    /\ oOut = <<>>
    /\ oPeek = <<>>
IdleInput ==
    /\ iText = <<>>
    /\ iBuild = "release"
    /\ iStdin = <<>>
    /\ iDisk = <<>>
    /\ iConfigs = {}
    /\ iPc = "idle"
    /\ iInput = <<>>
    /\ iIter = <<>>
    /\ iOut = <<>>
    /\ iErr = "none"

InitCond ==
    /\ cText \in CondTexts
    /\ cCond \in Conditions
    /\ cPc = "ready"
    /\ cRes = FALSE
    /\ IdleErr /\ IdleRepl /\ IdleRun /\ IdleArgs /\ IdleToken /\ IdleTrim /\ IdleOp /\ IdleInput

\* A take/drop filter closure calls cond.test(s) on the record.
CondTest ==
    /\ cPc = "ready"
    /\ cRes' = test(cCond, cText)
    /\ cPc' = "tested"
    /\ UNCHANGED <<cText, cCond, othersCond>>

\* The next record reaches the same condition.
CondNextRecord ==
    /\ cPc = "tested"
    /\ cText' \in CondTexts
    /\ cPc' = "ready"
    /\ cRes' = FALSE
    /\ UNCHANGED <<cCond, othersCond>>

NextCond == CondTest \/ CondNextRecord

SpecCond == InitCond /\ [][NextCond]_vars

Negated(c) == [c EXCEPT !.yes = ~c.yes]

IsNumeric(c) == c.select.kind \in {"NumRange", "NumSpec"}

C7_LenRange ==
    (cPc = "tested" /\ cCond.select.kind = "TextLenRange"
        /\ (\A lo \in cCond.select.min : \A hi \in cCond.select.max : lo <= hi))
        => LET inRange == /\ (\A lo \in cCond.select.min : lo <= Len(cText))
                          /\ (\A hi \in cCond.select.max : Len(cText) <= hi)
           IN cRes = (IF cCond.yes THEN inRange ELSE ~inRange)

C7_Witness ==
    /\ cPc = "tested"
    /\ cRes = TRUE
    /\ cCond.yes
    /\ cCond.select.kind = "TextLenRange"
    /\ cCond.select.min = Some(1) /\ cCond.select.max = Some(2)
    /\ cText = <<Ch.eacute, Ch.eacute>>

(***************************************************************************)
(* Exit codes (err.rs, main.rs).  Two invocations of the program, each     *)
(* ending in success or in one error kind, so that the codes of two        *)
(* different kinds can be compared.                                        *)
(***************************************************************************)
\* enum RpErr, in declaration order.
RpErr ==
    <<"ParseConfigTokenErr", "ParseInputTokenErr", "ParseOpTokenErr", "ParseOutputTokenErr",
      "ArgParseErr", "UnexpectedRemaining", "MissingArg", "ArgNotEnough",
      "UnclosingMultiArg", "UnexpectedClosingBracket", "UnknownArgs",
      "ReadClipboardTextErr", "OpenInputFileErr", "ReadFromInputFileErr",
      "WriteToClipboardErr", "OpenOutputFileErr", "WriteToOutputFileErr">>

ErrKinds == Range(RpErr)

\* The arm of the match in exit_code that `kind` selects (1-based).
MatchArm(kind) == CHOOSE i \in DOMAIN RpErr : RpErr[i] = kind

\* Iterator::next on a RangeFrom<u8>: yields the cursor and advances it.
range_from_next(code) == [value |-> code, iter |-> code + 1]

\* `let mut code = 0u8..;` then the one arm the match selects is evaluated: it
\* calls code.next() once, on the fresh range.
exit_code(kind) ==
    LET code == 0
        arm == MatchArm(kind)
    IN IF arm \in DOMAIN RpErr THEN range_from_next(code).value ELSE 0

Runs == {1, 2}

InitErr ==
    /\ eKinds \in [Runs -> ErrKinds \cup {"Ok"}]
    /\ ePc = [r \in Runs |-> "run"]
    /\ eCode = [r \in Runs |-> -1]
    /\ IdleCond /\ IdleRepl /\ IdleRun /\ IdleArgs /\ IdleToken /\ IdleTrim /\ IdleOp /\ IdleInput

\* main: run() returned Ok(()), the process ends with status 0.
ErrMainOk(r) ==
    /\ ePc[r] = "run"
    /\ eKinds[r] = "Ok"
    /\ ePc' = [ePc EXCEPT ![r] = "exited"]
    /\ eCode' = [eCode EXCEPT ![r] = 0]
    /\ UNCHANGED <<eKinds, othersErr>>

\* main: run() returned Err(e); RpErr::termination computes the exit code.
ErrTermination(r) ==
    /\ ePc[r] = "run"
    /\ eKinds[r] # "Ok"
    /\ ePc' = [ePc EXCEPT ![r] = "report"]
    /\ eCode' = [eCode EXCEPT ![r] = exit_code(eKinds[r])]
    /\ UNCHANGED <<eKinds, othersErr>>

\* RpErr::termination: self.report() prints the message, then
\* std::process::exit(exit_code as i32).
ErrExit(r) ==
    /\ ePc[r] = "report"
    /\ ePc' = [ePc EXCEPT ![r] = "exited"]
    /\ UNCHANGED <<eKinds, eCode, othersErr>>

NextErr == \E r \in Runs : ErrMainOk(r) \/ ErrTermination(r) \/ ErrExit(r)

SpecErr == InitErr /\ [][NextErr]_vars

\* C2: every error kind exits with a positive code, and two different error kinds
\* never exit with the same code (0 is success).
C2_ExitCodesPositiveAndDistinct ==
    \A r1 \in Runs : \A r2 \in Runs :
        (ePc[r1] = "exited" /\ ePc[r2] = "exited" /\ eKinds[r1] # "Ok" /\ eKinds[r2] # "Ok")
            => /\ eCode[r1] > 0
               /\ (eKinds[r1] # eKinds[r2] => eCode[r1] # eCode[r2])


(***************************************************************************)
(* Replace (op.rs, op/mod.rs).                                             *)
(***************************************************************************)
MaxFromLen == 2
MaxToLen == 1
MaxCount == 2

\* UTF-8 decoding of a valid byte sequence (String -> its chars).
RECURSIVE Decode(_)
Decode(b) ==
    IF b = <<>> THEN <<>>
    ELSE IF b[1] < 128 THEN <<b[1]>> \o Decode(SubSeq(b, 2, Len(b)))
    ELSE IF b[1] < 224
         THEN <<(b[1] - 192) * 64 + (b[2] - 128)>> \o Decode(SubSeq(b, 3, Len(b)))
    ELSE <<(b[1] - 224) * 4096 + (b[2] - 128) * 64 + (b[3] - 128)>> \o Decode(SubSeq(b, 4, Len(b)))

\* char::to_lowercase: ASCII upper case letters map to lower case; U+0130 maps to
\* the two scalar values 'i' U+0307; every other char of the model maps to itself.
to_lowercase_char(c) ==
    IF c >= 65 /\ c <= 90 THEN <<c + 32>>
    ELSE IF c >= 192 /\ c <= 222 /\ c # 215 THEN <<c + 32>>
    ELSE IF c = Ch.Idot THEN <<Ch.i, Ch.combdot>>
    ELSE <<c>>

\* str::to_lowercase
RECURSIVE to_lowercase(_)
to_lowercase(s) == IF s = <<>> THEN <<>> ELSE to_lowercase_char(Head(s)) \o to_lowercase(Tail(s))

\* str::is_char_boundary, on a 0-based byte offset.
is_char_boundary(bytes, i) ==
    \/ i = 0
    \/ i = Len(bytes)
    \/ (i > 0 /\ i < Len(bytes) /\ ~IsContinuationByte(bytes[i + 1]))

\* &text[a..b] on 0-based byte offsets: panics unless a <= b <= len and both
\* offsets lie on char boundaries.
str_slice(bytes, a, b) ==
    IF a <= b /\ b <= Len(bytes) /\ is_char_boundary(bytes, a) /\ is_char_boundary(bytes, b)
    THEN [panic |-> FALSE, bytes |-> SubSeq(bytes, a + 1, b)]
    ELSE [panic |-> TRUE, bytes |-> <<>>]

\* str::match_indices: the 0-based start offsets of the non-overlapping matches of
\* needle at or after pos, left to right; an empty needle matches at every char
\* boundary.
RECURSIVE match_indices(_, _, _)
match_indices(hay, needle, pos) ==
    IF needle = <<>>
    THEN IF pos > Len(hay) THEN <<>>
         ELSE IF is_char_boundary(hay, pos) THEN <<pos>> \o match_indices(hay, needle, pos + 1)
         ELSE match_indices(hay, needle, pos + 1)
    ELSE IF pos + Len(needle) > Len(hay) THEN <<>>
         ELSE IF SubSeq(hay, pos + 1, pos + Len(needle)) = needle
              THEN <<pos>> \o match_indices(hay, needle, pos + Len(needle))
         ELSE match_indices(hay, needle, pos + 1)

\* The for loop of replace_with_count_and_nocase over the matches; st is
\* (result, last_end, replaced_count) and whether a slice panicked.
\* count.unwrap_or(usize::MAX): with count None no replaced_count reaches the maximum.
RECURSIVE replace_loop(_, _, _, _, _, _)
replace_loop(text, matches, from_len, to, count, st) ==
    IF matches = <<>> \/ st.panic THEN st
    ELSE IF \E max_replacements \in count : st.replaced_count >= max_replacements THEN st
    ELSE LET start == Head(matches)
             piece == str_slice(text, st.last_end, start)
         IN replace_loop(text, Tail(matches), from_len, to, count,
                [panic |-> piece.panic,
                 result |-> st.result \o piece.bytes \o to,
                 last_end |-> start + from_len,
                 replaced_count |-> st.replaced_count + 1])

\* The loop with the break test `replaced_count > max_replacements`.
RECURSIVE replace_loop_mutant_gt(_, _, _, _, _, _)
replace_loop_mutant_gt(text, matches, from_len, to, count, st) ==
    IF matches = <<>> \/ st.panic THEN st
    ELSE IF \E max_replacements \in count : st.replaced_count > max_replacements THEN st
    ELSE LET start == Head(matches)
             piece == str_slice(text, st.last_end, start)
         IN replace_loop_mutant_gt(text, Tail(matches), from_len, to, count,
                [panic |-> piece.panic,
                 result |-> st.result \o piece.bytes \o to,
                 last_end |-> start + from_len,
                 replaced_count |-> st.replaced_count + 1])

\* What the function returns: Cow::Borrowed(text) or Cow::Owned(result), as the
\* chars of the string, or a panic.
replace_result(text_bytes, st) ==
    IF st.panic THEN [panic |-> TRUE, owned |-> FALSE, text |-> <<>>]
    ELSE IF st.replaced_count = 0 THEN [panic |-> FALSE, owned |-> FALSE, text |-> Decode(text_bytes)]
    ELSE LET rest == str_slice(text_bytes, st.last_end, Len(text_bytes))
         IN IF rest.panic THEN [panic |-> TRUE, owned |-> FALSE, text |-> <<>>]
            ELSE [panic |-> FALSE, owned |-> TRUE, text |-> Decode(st.result \o rest.bytes)]

ReplaceStart == [panic |-> FALSE, result |-> <<>>, last_end |-> 0, replaced_count |-> 0]

replace_mutant_off_by_one(text, from, to, count, nocase) ==
    LET actual_text == Utf8(IF nocase THEN to_lowercase(text) ELSE text)
        actual_from == Utf8(IF nocase THEN to_lowercase(from) ELSE from)
    IN replace_result(Utf8(text),
           replace_loop_mutant_gt(Utf8(text), match_indices(actual_text, actual_from, 0),
                                  Len(actual_from), Utf8(to), count, ReplaceStart))

\* Only the first match is replaced.
replace_mutant_first_only(text, from, to, count, nocase) ==
    LET actual_text == Utf8(IF nocase THEN to_lowercase(text) ELSE text)
        actual_from == Utf8(IF nocase THEN to_lowercase(from) ELSE from)
    IN replace_result(Utf8(text),
           replace_loop(Utf8(text), match_indices(actual_text, actual_from, 0),
                        Len(actual_from), Utf8(to), Some(1), ReplaceStart))

replace_with_count_and_nocase(text, from, to, count, nocase) ==
    LET actual_text == Utf8(IF nocase THEN to_lowercase(text) ELSE text)
        actual_from == Utf8(IF nocase THEN to_lowercase(from) ELSE from)
    IN replace_result(Utf8(text),
           replace_loop(Utf8(text), match_indices(actual_text, actual_from, 0),
                        Len(actual_from), Utf8(to), count, ReplaceStart))

\* config.rs: is_nocase(nocase, configs)
is_nocase(nocase, configs) == nocase \/ "Nocase" \in configs

\* Op::wrap (Replace): with count == Some(0) the pipe is returned as it is; otherwise
\* each item is mapped: Cow::Borrowed keeps the item, Cow::Owned replaces it.
wrap_replace(arg, configs, item) ==
    IF arg.count = Some(0) THEN [panic |-> FALSE, text |-> item]
    ELSE LET cow == replace_with_count_and_nocase(item, arg.from, arg.to, arg.count,
                                                  is_nocase(arg.nocase, configs))
         IN IF cow.panic THEN [panic |-> TRUE, text |-> <<>>]
            ELSE IF cow.owned THEN [panic |-> FALSE, text |-> cow.text]
            ELSE [panic |-> FALSE, text |-> item]

ReplTexts == SeqsUpTo({Ch.a, Ch.A, Ch.b, Ch.Idot}, MaxTextLen)
ReplFroms == SeqsUpTo({Ch.A, Ch.b}, MaxFromLen)
ReplTos == SeqsUpTo({Ch.A, Ch.b}, MaxToLen)
ReplCounts == {None} \cup {Some(n) : n \in 0..MaxCount}

\* Op::new_replace(from, to, count, nocase)
ReplaceArgs == [from : ReplFroms, to : ReplTos, count : ReplCounts, nocase : BOOLEAN]

NoResult == [panic |-> FALSE, text |-> <<>>]

InitRepl ==
    /\ rText \in ReplTexts
    /\ rArg \in ReplaceArgs
    /\ rConfigs \in SUBSET {"Nocase"}
    /\ rPc = "ready"
    /\ rFn = NoResult
    /\ rOut = NoResult
    /\ rOut2 = NoResult
    /\ IdleCond /\ IdleErr /\ IdleRun /\ IdleArgs /\ IdleToken /\ IdleTrim /\ IdleOp /\ IdleInput

\* The record passes the Replace stage; rFn is the function called on it directly,
\* as the unit test calls it.
ReplApply ==
    /\ rPc = "ready"
    /\ rPc' = "once"
    /\ rOut' = wrap_replace(rArg, rConfigs, rText)
    /\ rFn' = LET r == replace_with_count_and_nocase(rText, rArg.from, rArg.to, rArg.count,
                                                     is_nocase(rArg.nocase, rConfigs))
              IN [panic |-> r.panic, text |-> r.text]
    /\ UNCHANGED <<rText, rArg, rConfigs, rOut2, othersRepl>>

\* The result passes a second Replace stage with the same arguments.
ReplApplyAgain ==
    /\ rPc = "once"
    /\ ~rOut.panic
    /\ rPc' = "twice"
    /\ rOut2' = wrap_replace(rArg, rConfigs, rOut.text)
    /\ UNCHANGED <<rText, rArg, rConfigs, rFn, rOut, othersRepl>>

NextRepl == ReplApply \/ ReplApplyAgain

SpecReplace == InitRepl /\ [][NextRepl]_vars

\* C8: with count = 0 every record is returned unchanged, whatever from (the empty
\* string too), to and nocase are: by the function itself and by the Replace stage.
C8_CountZeroIsIdentity ==
    (rPc # "ready" /\ rArg.count = Some(0))
        => /\ rFn = [panic |-> FALSE, text |-> rText]
           /\ rOut = [panic |-> FALSE, text |-> rText]

C8_Witness ==
    /\ rPc = "once"
    /\ rArg.count = Some(0)
    /\ rArg.from = <<Ch.A>>
    /\ rArg.nocase
    /\ rText = <<Ch.a, Ch.A, Ch.b>>
    /\ rFn.text = rText

\* from occurs in s, as chars.
Contains(s, from) == \E i \in 0..(Len(s) - Len(from)) : SubSeq(s, i + 1, i + Len(from)) = from

CaseSensitiveUnlimited == rArg.count = None /\ ~is_nocase(rArg.nocase, rConfigs)

\* C9 as stated: unlimited case-sensitive Replace is idempotent whenever `to` does
\* not contain `from`.
C9_IdempotentIfToLacksFrom ==
    (rPc = "twice" /\ CaseSensitiveUnlimited /\ ~Contains(rArg.to, rArg.from)) => rOut2 = rOut

\* C9 amended: unlimited case-sensitive Replace is idempotent whenever `from` and
\* `to` are not empty and no character of `to` occurs in `from`.
C9_IdempotentIfToDisjointFromFrom ==
    (rPc = "twice" /\ CaseSensitiveUnlimited
        /\ rArg.from # <<>> /\ rArg.to # <<>> /\ Range(rArg.to) \cap Range(rArg.from) = {})
        => rOut2 = rOut

C9_Witness ==
    /\ rPc = "twice"
    /\ CaseSensitiveUnlimited
    /\ rArg.from = <<Ch.A>> /\ rArg.to = <<Ch.b>>
    /\ rText = <<Ch.A, Ch.a, Ch.A>>
    /\ rOut.text = <<Ch.b, Ch.a, Ch.b>>
    /\ rOut2 = rOut

\* What C10 describes, on the chars of the record: left to right, each of the first
\* n (all, for n = -1) non-overlapping substrings equal to from ignoring case is
\* replaced by to; everything else is copied as it is.  An empty from matches
\* before every char and at the end.
RECURSIVE NocaseReplaced(_, _, _, _)
NocaseReplaced(s, from, to, n) ==
    IF n = 0 THEN s
    ELSE IF from = <<>>
         THEN IF s = <<>> THEN to
              ELSE to \o <<Head(s)>> \o NocaseReplaced(Tail(s), from, to, IF n < 0 THEN n ELSE n - 1)
    ELSE IF Len(s) < Len(from) THEN s
    ELSE IF to_lowercase(SubSeq(s, 1, Len(from))) = to_lowercase(from)
         THEN to \o NocaseReplaced(SubSeq(s, Len(from) + 1, Len(s)), from, to, IF n < 0 THEN n ELSE n - 1)
    ELSE <<Head(s)>> \o NocaseReplaced(Tail(s), from, to, n)

CountOrAll(count) == IF count = None THEN -1 ELSE CHOOSE n \in count : TRUE

\* C10: with nocase, up to count substrings equal to from ignoring case are replaced
\* by to, left to right and non-overlapping, and every other character of the
\* record is in the result unchanged, in its casing and order.
C10_NocaseKeepsTheRest ==
    (rPc # "ready" /\ is_nocase(rArg.nocase, rConfigs))
        => /\ ~rFn.panic
           /\ rFn.text = NocaseReplaced(rText, rArg.from, rArg.to, CountOrAll(rArg.count))

\* C10 on records of ASCII letters only.
C10_NocaseKeepsTheRestAscii ==
    (rPc # "ready" /\ is_nocase(rArg.nocase, rConfigs) /\ \A i \in DOMAIN rText : rText[i] < 128)
        => /\ ~rFn.panic
           /\ rFn.text = NocaseReplaced(rText, rArg.from, rArg.to, CountOrAll(rArg.count))

(***************************************************************************)
(* The run loop (main.rs run): input.pipe(), op.wrap for each op in order, *)
(* then output.handle unless --dry-run.  A Pipe is a lazy iterator: a      *)
(* source and the stages wrapped around it.  Pulling one record from the   *)
(* pipe pulls one record from the source and passes it through every       *)
(* stage.  Count and Sort consume the whole pipe inside Op::wrap and leave *)
(* a pipe over the collected result.  Input files are opened by the source *)
(* iterator, when the first line of each file is asked for.                *)
(***************************************************************************)
MaxValues == 2      \* records of an `of` input
MaxFiles == 2       \* files of a `file` input
MaxOps == 2         \* ops on the command line

RunItems == {<<Ch.b>>, <<Ch.a>>}

\* A file on disk: whether it can be opened, and its lines.
RunFiles ==
    {[ok |-> TRUE, lines |-> <<<<Ch.b>>, <<Ch.a>>>>], [ok |-> TRUE, lines |-> <<<<Ch.a>>>>],
     [ok |-> FALSE, lines |-> <<>>]}

RunInputs ==
    {[kind |-> "Of", values |-> v, files |-> <<>>] : v \in SeqsUpTo(RunItems, MaxValues)}
        \cup {[kind |-> "File", values |-> <<>>, files |-> f] : f \in SeqsUpTo(RunFiles, MaxFiles) \ {<<>>}}

RunOps ==
    {[kind |-> "PeekStdOut", ok |-> TRUE], [kind |-> "PeekFile", ok |-> TRUE],
     [kind |-> "PeekFile", ok |-> FALSE], [kind |-> "Upper", ok |-> TRUE],
     [kind |-> "Count", ok |-> TRUE], [kind |-> "Sort", ok |-> TRUE]}

RunOutputs ==
    {[kind |-> "StdOut", ok |-> TRUE], [kind |-> "File", ok |-> TRUE], [kind |-> "File", ok |-> FALSE],
     [kind |-> "Clip", ok |-> TRUE], [kind |-> "Clip", ok |-> FALSE]}

RunConfigs == SUBSET {"DryRun", "SkipErr"}

\* config::skip_err: whether open and read errors of input files are skipped.
skip_err(configs) == "SkipErr" \in configs

\* The source iterator of a Pipe.  `input` is TRUE for the iterator Input built
\* and FALSE for the iterator over what an eager op collected.
OfSrc(values) == [kind |-> "Vec", input |-> TRUE, items |-> values, files |-> <<>>, fi |-> 0, li |-> 0]
FileSrc(files) == [kind |-> "File", input |-> TRUE, items |-> <<>>, files |-> files, fi |-> 0, li |-> 0]
VecSrc(items) == [kind |-> "Vec", input |-> FALSE, items |-> items, files |-> <<>>, fi |-> 0, li |-> 0]

\* Input::try_into
try_into(input) == IF input.kind = "File" THEN FileSrc(input.files) ELSE OfSrc(input.values)

\* next() of the File source: the lines of the current file, then File::open
\* of the next file; a file that does not open is skipped or terminates the
\* process with OpenFileErr.
RECURSIVE file_next(_, _)
file_next(src, configs) ==
    IF src.fi >= 1 /\ src.fi <= Len(src.files) /\ src.li < Len(src.files[src.fi].lines)
    THEN [item |-> Some(src.files[src.fi].lines[src.li + 1]),
          src |-> [src EXCEPT !.li = src.li + 1], abort |-> FALSE]
    ELSE IF src.fi >= Len(src.files)
    THEN [item |-> None, src |-> [src EXCEPT !.fi = Len(src.files) + 1, !.li = 0], abort |-> FALSE]
    ELSE IF src.files[src.fi + 1].ok \/ skip_err(configs)
    THEN file_next([src EXCEPT !.fi = src.fi + 1, !.li = 0], configs)
    ELSE [item |-> None, src |-> [src EXCEPT !.fi = src.fi + 1, !.li = 0], abort |-> TRUE]

\* next() of vec::IntoIter
vec_next(src) ==
    IF src.items = <<>>
    THEN [item |-> None, src |-> src, abort |-> FALSE]
    ELSE [item |-> Some(Head(src.items)), src |-> [src EXCEPT !.items = Tail(src.items)], abort |-> FALSE]

src_next(src, configs) == IF src.kind = "File" THEN file_next(src, configs) ELSE vec_next(src)

\* u8::make_ascii_uppercase on every byte of the record.
make_ascii_uppercase(item) ==
    [i \in DOMAIN item |-> IF item[i] >= 97 /\ item[i] <= 122 THEN item[i] - 32 ELSE item[i]]

\* One record through the lazy stages, innermost first: op_map closures change
\* the record, op_inspect closures write it to their sink.
RECURSIVE through_stages(_, _, _)
through_stages(stages, item, sinks) ==
    IF stages = <<>> THEN [item |-> item, sinks |-> sinks]
    ELSE IF Head(stages) = "Upper"
    THEN through_stages(Tail(stages), make_ascii_uppercase(item), sinks)
    ELSE IF Head(stages) = "PeekStdOut"
    THEN through_stages(Tail(stages), item, [sinks EXCEPT !.stdout = Append(@, item)])
    ELSE through_stages(Tail(stages), item, [sinks EXCEPT !.peek = Append(@, item)])

\* Pipe::next: one record from the source through the stages.
pipe_next(pipe, sinks, configs) ==
    LET r == src_next(pipe.src, configs) IN
    IF r.abort \/ r.item = None
    THEN [item |-> None, pipe |-> [pipe EXCEPT !.src = r.src], sinks |-> sinks,
          abort |-> r.abort, pulled |-> 0]
    ELSE LET t == through_stages(pipe.stages, CHOOSE x \in r.item : TRUE, sinks) IN
         [item |-> Some(t.item), pipe |-> [pipe EXCEPT !.src = r.src], sinks |-> t.sinks,
          abort |-> FALSE, pulled |-> IF pipe.src.input THEN 1 ELSE 0]

\* Iterator::count, collect, sorted_by_key: next() until None.  The process
\* may terminate in the middle (abort).
RECURSIVE drain(_, _, _, _, _)
drain(pipe, sinks, configs, items, pulled) ==
    LET r == pipe_next(pipe, sinks, configs) IN
    IF r.abort \/ r.item = None
    THEN [items |-> items, pipe |-> r.pipe, sinks |-> r.sinks, abort |-> r.abort, pulled |-> pulled]
    ELSE drain(r.pipe, r.sinks, configs, Append(items, CHOOSE x \in r.item : TRUE), pulled + r.pulled)

\* String order: byte-wise lexicographic.
RECURSIVE str_lt(_, _)
str_lt(x, y) ==
    IF y = <<>> THEN FALSE
    ELSE IF x = <<>> THEN TRUE
    ELSE IF x[1] # y[1] THEN x[1] < y[1]
    ELSE str_lt(Tail(x), Tail(y))

\* itertools sorted_by_key(|item| item.to_string()): a stable sort.
RECURSIVE sorted_by_key(_)
sorted_by_key(s) ==
    IF s = <<>> THEN <<>>
    ELSE LET t == sorted_by_key(SubSeq(s, 1, Len(s) - 1))
             x == s[Len(s)]
             k == Cardinality({i \in DOMAIN t : ~str_lt(Utf8(x), Utf8(t[i]))})
         IN SubSeq(t, 1, k) \o <<x>> \o SubSeq(t, k + 1, Len(t))

\* usize::to_string
RECURSIVE usize_to_string(_)
usize_to_string(n) ==
    IF n < 10 THEN <<48 + n>> ELSE Append(usize_to_string(n \div 10), 48 + (n % 10))

\* Op::wrap: the new pipe, what was written and pulled while wrapping, and the
\* error the process terminated with, if any.
wrap(op, pipe, sinks, configs) ==
    IF op.kind = "PeekFile" /\ ~op.ok
    THEN [pipe |-> pipe, sinks |-> sinks, pulled |-> 0, err |-> "OpenFileErr"]
    ELSE IF op.kind \in {"PeekStdOut", "PeekFile", "Upper"}
    THEN [pipe |-> [pipe EXCEPT !.stages = Append(@, op.kind)], sinks |-> sinks,
          pulled |-> 0, err |-> "none"]
    ELSE LET d == drain(pipe, sinks, configs, <<>>, 0) IN
         [pipe |-> IF d.abort THEN d.pipe
                   ELSE IF op.kind = "Count"
                   THEN [src |-> VecSrc(<<usize_to_string(Len(d.items))>>), stages |-> <<>>]
                   ELSE [src |-> VecSrc(sorted_by_key(d.items)), stages |-> <<>>],
          sinks |-> d.sinks, pulled |-> d.pulled,
          err |-> IF d.abort THEN "OpenFileErr" ELSE "none"]

NoSinks == [stdout |-> <<>>, peek |-> <<>>, out |-> <<>>, clip |-> None]

\* The text Output::handle hands to set_clipboard_string, "Hello, Windows" and
\* four CJK characters, as code points.
ClipText ==
    <<72, 101, 108, 108, 111, 44, 32, 87, 105, 110, 100, 111, 119, 115,
      32, 21098, 36148, 26495, 65281>>

InitRun ==
    /\ nCmd \in [input : RunInputs, ops : SeqsUpTo(RunOps, MaxOps), output : RunOutputs,
                 configs : RunConfigs]
    /\ nPc = "input"
    /\ nIdx = 1
    /\ nPipe = <<>>
    /\ nSinks = NoSinks
    /\ nPulled = 0
    /\ nErr = "none"
    /\ IdleCond /\ IdleErr /\ IdleRepl /\ IdleArgs /\ IdleToken /\ IdleTrim /\ IdleOp /\ IdleInput

\* let mut pipe = input.pipe()?;
RunInputPipe ==
    /\ nPc = "input"
    /\ nPipe' = [src |-> try_into(nCmd.input), stages |-> <<>>]
    /\ nPc' = "wrap"
    /\ UNCHANGED <<nCmd, nIdx, nSinks, nPulled, nErr, othersRun>>

\* for op in ops { pipe = op.wrap(pipe, configs)?; }
RunWrapOp ==
    /\ nPc = "wrap"
    /\ nIdx <= Len(nCmd.ops)
    /\ LET w == wrap(nCmd.ops[nIdx], nPipe, nSinks, nCmd.configs) IN
        /\ nPipe' = w.pipe
        /\ nSinks' = w.sinks
        /\ nPulled' = nPulled + w.pulled
        /\ nErr' = w.err
        /\ nPc' = IF w.err = "none" THEN "wrap" ELSE "aborted"
        /\ nIdx' = IF w.err = "none" THEN nIdx + 1 ELSE nIdx
    /\ UNCHANGED <<nCmd, othersRun>>

\* if configs.contains(&Config::DryRun) { Ok(()) }
RunDryRun ==
    /\ nPc = "wrap"
    /\ nIdx > Len(nCmd.ops)
    /\ "DryRun" \in nCmd.configs
    /\ nPc' = "done"
    /\ UNCHANGED <<nCmd, nIdx, nPipe, nSinks, nPulled, nErr, othersRun>>

\* output.handle(pipe): StdOut starts its loop; File opens the file first; Clip
\* sets the clipboard and returns.
RunHandle ==
    /\ nPc = "wrap"
    /\ nIdx > Len(nCmd.ops)
    /\ "DryRun" \notin nCmd.configs
    /\ nPc' = IF ~nCmd.output.ok THEN "aborted"
              ELSE IF nCmd.output.kind = "Clip" THEN "done" ELSE "output"
    /\ nErr' = IF nCmd.output.ok THEN "none"
               ELSE IF nCmd.output.kind = "Clip" THEN "WriteToClipboardErr" ELSE "OpenOutputFileErr"
    /\ nSinks' = IF nCmd.output.kind = "Clip" /\ nCmd.output.ok
                 THEN [nSinks EXCEPT !.clip = Some(ClipText)] ELSE nSinks
    /\ UNCHANGED <<nCmd, nIdx, nPipe, nPulled, othersRun>>

\* One turn of `for item in pipe`: the record is printed or written; the loop
\* ends with the pipe.
RunHandleNext ==
    /\ nPc = "output"
    /\ LET r == pipe_next(nPipe, nSinks, nCmd.configs) IN
        /\ nPipe' = r.pipe
        /\ nPulled' = nPulled + r.pulled
        /\ nSinks' = IF r.item = None THEN r.sinks
                     ELSE IF nCmd.output.kind = "StdOut"
                     THEN [r.sinks EXCEPT !.stdout = Append(@, CHOOSE x \in r.item : TRUE)]
                     ELSE [r.sinks EXCEPT !.out = Append(@, CHOOSE x \in r.item : TRUE)]
        /\ nPc' = IF r.abort THEN "aborted" ELSE IF r.item = None THEN "done" ELSE "output"
        /\ nErr' = IF r.abort THEN "OpenFileErr" ELSE "none"
    /\ UNCHANGED <<nCmd, nIdx, othersRun>>

NextRun == RunInputPipe \/ RunWrapOp \/ RunDryRun \/ RunHandle \/ RunHandleNext

SpecRun == InitRun /\ [][NextRun]_vars

\* C3: no record is pulled from the input while the ops are wrapped around
\* it; the first pull happens only once the Output consumer is pulling.
C3_NoPullWhileWrapping ==
    nPc \in {"input", "wrap"} => nPulled = 0

\* C4: when an input file, a Peek file or the output file cannot be opened,
\* the run aborts before any record was processed or written to a sink.
C4_OpenFailureBeforeAnyRecord ==
    (nPc = "aborted" /\ nErr \in {"OpenFileErr", "OpenOutputFileErr"})
        => nPulled = 0 /\ nSinks = NoSinks

\* What the sink of the Output holds at the end of the run, as records.
Delivered ==
    CASE nCmd.output.kind = "StdOut" -> nSinks.stdout
      [] nCmd.output.kind = "File" -> nSinks.out
      [] nCmd.output.kind = "Clip" -> IF nSinks.clip = None THEN <<>> ELSE <<CHOOSE t \in nSinks.clip : TRUE>>

HandledPlainOf ==
    nPc = "done" /\ "DryRun" \notin nCmd.configs /\ nCmd.ops = <<>> /\ nCmd.input.kind = "Of"

\* C21: for every Output variant Output::handle drains the whole pipe and
\* delivers every record, in order, to the sink (here: the values of an `of`
\* input without ops); what is written to the clipboard is the records.
C21_OutputDeliversEveryRecord ==
    HandledPlainOf => (Delivered = nCmd.input.values /\ pipe_next(nPipe, nSinks, nCmd.configs).item = None)

\* C21, for StdOut and File.
C21_StdOutAndFileDeliverEveryRecord ==
    (HandledPlainOf /\ nCmd.output.kind # "Clip")
        => (Delivered = nCmd.input.values /\ pipe_next(nPipe, nSinks, nCmd.configs).item = None)
C21_FileWitness == HandledPlainOf /\ nCmd.output.kind = "File" /\ Len(nSinks.out) = 2

(***************************************************************************)
(* The argv parser (parse/args): parse_input, parse_ops and parse_output   *)
(* take tokens from the front of a Peekable iterator; parse then collects  *)
(* what is left.  With --eval the next argument is parsed as one command   *)
(* text instead (main.rs parse_eval_token); the text is modelled as its    *)
(* words.                                                                  *)
(***************************************************************************)
MaxArgs == 4        \* tokens on the command line
MaxEvalWords == 3   \* words of an --eval token

ArgTokens == {"of", "[", "]", "x", "upper", "replace", "peek", "nocase", "2", "TO", "out"}

\* u8::to_ascii_lowercase over a token of the vocabulary.
to_ascii_lowercase(t) == IF t = "TO" THEN "to" ELSE t
eq_ignore_ascii_case(a, b) == to_ascii_lowercase(a) = to_ascii_lowercase(b)

\* s.parse::<usize>().ok() over a token of the vocabulary.
parse_usize(t) == IF t = "2" THEN Some(2) ELSE None

escaped(arg) == IF arg = "\\[" THEN "[" ELSE IF arg = "\\]" THEN "]" ELSE arg

\* What a parser returns: Ok(val) or Err(err), and the iterator it leaves.
POk(val, rest) == [ok |-> TRUE, err |-> "none", val |-> val, rest |-> rest]
PErr(err, rest) == [ok |-> FALSE, err |-> err, val |-> <<>>, rest |-> rest]

parse_arg_or_arg1(args) ==
    IF args = <<>> THEN PErr("MissingArg", args)
    ELSE IF Head(args) = "["
    THEN LET t == Tail(args)
             closing == {j \in DOMAIN t : t[j] = "]"}
         IN IF closing = {} THEN PErr("UnclosingMultiArg", <<>>)
            ELSE LET j == CHOOSE k \in closing : \A m \in closing : k <= m IN
                 IF j = 1 THEN PErr("ArgNotEnough", SubSeq(t, 2, Len(t)))
                 ELSE POk([i \in 1..(j - 1) |-> escaped(t[i])], SubSeq(t, j + 1, Len(t)))
    ELSE IF Head(args) = "]" THEN PErr("UnexpectedClosingBracket", Tail(args))
    ELSE POk(<<escaped(Head(args))>>, Tail(args))

\* parse::args::input::parse_input: `in`, `of <values>`, or no input command,
\* which leaves the tokens alone and defaults to StdIn.
args_parse_input(args) ==
    IF args = <<>> THEN POk([kind |-> "StdIn", values |-> <<>>], args)
    ELSE IF eq_ignore_ascii_case(Head(args), "in")
    THEN POk([kind |-> "StdIn", values |-> <<>>], Tail(args))
    ELSE IF eq_ignore_ascii_case(Head(args), "of")
    THEN LET r == parse_arg_or_arg1(Tail(args)) IN
         IF r.ok THEN POk([kind |-> "Of", values |-> r.val], r.rest) ELSE r
    ELSE POk([kind |-> "StdIn", values |-> <<>>], args)

ArgOp(kind, from, to, count, nocase) ==
    [kind |-> kind, from |-> from, to |-> to, count |-> count, nocase |-> nocase]

parse_replace(args) ==
    LET a1 == Tail(args) IN
    IF a1 = <<>> THEN PErr("MissingArg", a1)
    ELSE LET a2 == Tail(a1) IN
    IF a2 = <<>> THEN PErr("MissingArg", a2)
    ELSE LET a3 == Tail(a2)
             count_opt == IF a3 = <<>> THEN None ELSE parse_usize(Head(a3))
             a4 == IF count_opt = None THEN a3 ELSE Tail(a3)
             nocase == a4 # <<>> /\ eq_ignore_ascii_case(Head(a4), "nocase")
             a5 == IF nocase THEN Tail(a4) ELSE a4
         IN POk(Some(ArgOp("Replace", Head(a1), Head(a2), count_opt, nocase)), a5)

parse_uniq(args) ==
    LET a1 == Tail(args)
        nocase == a1 # <<>> /\ eq_ignore_ascii_case(Head(a1), "nocase")
    IN POk(Some(ArgOp("Uniq", "", "", None, nocase)), IF nocase THEN Tail(a1) ELSE a1)

\* parse_peek builds its Op with Op::new_uniq.
parse_peek(args) ==
    LET a1 == Tail(args)
        nocase == a1 # <<>> /\ eq_ignore_ascii_case(Head(a1), "nocase")
    IN POk(Some(ArgOp("Uniq", "", "", None, nocase)), IF nocase THEN Tail(a1) ELSE a1)

\* parse_op: Ok(Some(op)), or Ok(None) when the next token is no op keyword.
parse_op(args) ==
    IF args = <<>> THEN POk(None, args)
    ELSE IF eq_ignore_ascii_case(Head(args), "upper")
    THEN POk(Some(ArgOp("Upper", "", "", None, FALSE)), Tail(args))
    ELSE IF eq_ignore_ascii_case(Head(args), "lower")
    THEN POk(Some(ArgOp("Lower", "", "", None, FALSE)), Tail(args))
    ELSE IF eq_ignore_ascii_case(Head(args), "case")
    THEN POk(Some(ArgOp("Case", "", "", None, FALSE)), Tail(args))
    ELSE IF eq_ignore_ascii_case(Head(args), "replace") THEN parse_replace(args)
    ELSE IF eq_ignore_ascii_case(Head(args), "uniq") THEN parse_uniq(args)
    ELSE IF eq_ignore_ascii_case(Head(args), "peek") THEN parse_peek(args)
    ELSE POk(None, args)

\* parse_ops: while let Some(op) = parse_op(args)? { ops.push(op); }
RECURSIVE parse_ops(_, _)
parse_ops(args, ops) ==
    LET r == parse_op(args) IN
    IF ~r.ok THEN r
    ELSE IF r.val = None THEN POk(ops, r.rest)
    ELSE parse_ops(r.rest, Append(ops, CHOOSE op \in r.val : TRUE))

\* The line ending that may follow a file name or `clip`.
parse_ending(args) ==
    IF args # <<>> /\ eq_ignore_ascii_case(Head(args), "crlf") THEN [crlf |-> Some(TRUE), rest |-> Tail(args)]
    ELSE IF args # <<>> /\ eq_ignore_ascii_case(Head(args), "lf") THEN [crlf |-> Some(FALSE), rest |-> Tail(args)]
    ELSE [crlf |-> None, rest |-> args]

\* parse_general_file_info: <file> [append] [crlf|lf]; None without a file.
parse_general_file_info(args) ==
    IF args = <<>> THEN None
    ELSE LET a1 == Tail(args)
             append == a1 # <<>> /\ eq_ignore_ascii_case(Head(a1), "append")
             e == parse_ending(IF append THEN Tail(a1) ELSE a1)
         IN Some([file |-> Head(args), append |-> append, crlf |-> e.crlf, rest |-> e.rest])

ArgOutput(kind, file, append, crlf) == [kind |-> kind, file |-> file, append |-> append, crlf |-> crlf]

args_parse_output(args) ==
    IF args # <<>> /\ eq_ignore_ascii_case(Head(args), "to")
    THEN LET a1 == Tail(args) IN
         IF a1 = <<>> THEN POk(ArgOutput("StdOut", "", FALSE, None), a1)
         ELSE IF eq_ignore_ascii_case(Head(a1), "file")
         THEN LET info == parse_general_file_info(Tail(a1)) IN
              IF info = None THEN PErr("MissingArg", Tail(a1))
              ELSE LET f == CHOOSE x \in info : TRUE IN
                   POk(ArgOutput("File", f.file, f.append, f.crlf), f.rest)
         ELSE IF eq_ignore_ascii_case(Head(a1), "clip")
         THEN LET e == parse_ending(Tail(a1)) IN POk(ArgOutput("Clip", "", FALSE, e.crlf), e.rest)
         ELSE IF eq_ignore_ascii_case(Head(a1), "out")
         THEN POk(ArgOutput("StdOut", "", FALSE, None), Tail(a1))
         ELSE POk(ArgOutput("StdOut", "", FALSE, None), a1)
    ELSE POk(ArgOutput("StdOut", "", FALSE, None), args)

\* What parse and parse_eval_token return.
ArgsOk == [ok |-> TRUE, err |-> "none", args |-> <<>>]
ArgsErr(err, args) == [ok |-> FALSE, err |-> err, args |-> args]

parse_mutant_ignores_remaining(remaining) == ArgsOk

\* The end of parse: let remaining = args.collect(); an error unless empty.
parse(remaining) ==
    IF remaining # <<>> THEN ArgsErr("UnknownArgs", remaining) ELSE ArgsOk

\* parse::token::parse_without_configs: the same grammar over the words of one
\* command text; Ok((remaining, res)) hands back the text it did not consume.
parse_without_configs(words) ==
    LET i == args_parse_input(words) IN
    IF ~i.ok THEN i
    ELSE LET o == parse_ops(i.rest, <<>>) IN
    IF ~o.ok THEN o
    ELSE LET t == args_parse_output(o.rest) IN
    IF ~t.ok THEN t
    ELSE POk([input |-> i.val, ops |-> o.val, output |-> t.val], t.rest)

parse_eval_token(token) ==
    IF token = None THEN ArgsErr("MissingArg", <<>>)
    ELSE LET r == parse_without_configs(CHOOSE w \in token : TRUE) IN
         IF ~r.ok THEN ArgsErr("ArgParseErr", <<>>)
         ELSE IF r.rest # <<>> THEN ArgsErr("UnexpectedRemaining", r.rest)
         ELSE ArgsOk

NoParts == [input |-> <<>>, ops |-> <<>>, output |-> <<>>, parsed |-> FALSE]
NoArgsRes == [ok |-> FALSE, err |-> "pending", args |-> <<>>]

InitArgs ==
    /\ aMode \in {"argv", "eval"}
    /\ \/ aMode = "argv" /\ aArgs \in SeqsUpTo(ArgTokens, MaxArgs) /\ aToken = None
       \/ aMode = "eval" /\ aArgs = <<>>
            /\ aToken \in {None} \cup {Some(w) : w \in SeqsUpTo(ArgTokens, MaxEvalWords)}
    /\ aRest = IF aMode = "argv" THEN aArgs ELSE <<>>
    /\ aPc = IF aMode = "argv" THEN "input" ELSE "eval"
    /\ aParts = NoParts
    /\ aConsumed = 0
    /\ aRes = NoArgsRes
    /\ IdleCond /\ IdleErr /\ IdleRepl /\ IdleRun /\ IdleToken /\ IdleTrim /\ IdleOp /\ IdleInput

\* let input = parse_input(&mut args)?;
ArgsParseInput ==
    /\ aPc = "input"
    /\ LET r == args_parse_input(aRest) IN
        /\ aRest' = r.rest
        /\ aConsumed' = Len(aArgs) - Len(r.rest)
        /\ aParts' = [aParts EXCEPT !.input = r.val]
        /\ aPc' = IF r.ok THEN "ops" ELSE "done"
        /\ aRes' = IF r.ok THEN aRes ELSE ArgsErr(r.err, <<>>)
    /\ UNCHANGED <<aMode, aArgs, aToken, othersArgs>>

\* One turn of the loop of parse_ops; Ok(None) ends it.
ArgsParseOp ==
    /\ aPc = "ops"
    /\ LET r == parse_op(aRest) IN
        /\ aRest' = r.rest
        /\ aConsumed' = Len(aArgs) - Len(r.rest)
        /\ aParts' = IF r.ok /\ r.val # None
                     THEN [aParts EXCEPT !.ops = Append(@, CHOOSE op \in r.val : TRUE)]
                     ELSE aParts
        /\ aPc' = IF ~r.ok THEN "done" ELSE IF r.val = None THEN "output" ELSE "ops"
        /\ aRes' = IF r.ok THEN aRes ELSE ArgsErr(r.err, <<>>)
    /\ UNCHANGED <<aMode, aArgs, aToken, othersArgs>>

\* let output = parse_output(&mut args)?;
ArgsParseOutput ==
    /\ aPc = "output"
    /\ LET r == args_parse_output(aRest) IN
        /\ aRest' = r.rest
        /\ aConsumed' = Len(aArgs) - Len(r.rest)
        /\ aParts' = [aParts EXCEPT !.output = r.val, !.parsed = r.ok]
        /\ aPc' = IF r.ok THEN "finish" ELSE "done"
        /\ aRes' = IF r.ok THEN aRes ELSE ArgsErr(r.err, <<>>)
    /\ UNCHANGED <<aMode, aArgs, aToken, othersArgs>>

\* let remaining = args.collect(); Err(UnknownArgs) or Ok((input, ops, output))
ArgsFinish ==
    /\ aPc = "finish"
    /\ aRes' = parse(aRest)
    /\ aRest' = <<>>
    /\ aPc' = "done"
    /\ UNCHANGED <<aMode, aArgs, aToken, aParts, aConsumed, othersArgs>>

\* parse_eval_token(&mut args)
ArgsEval ==
    /\ aPc = "eval"
    /\ aRes' = parse_eval_token(aToken)
    /\ LET r == IF aToken = None THEN PErr("MissingArg", <<>>)
                ELSE parse_without_configs(CHOOSE w \in aToken : TRUE) IN
        /\ aRest' = r.rest
        /\ aConsumed' = IF aToken = None THEN 0 ELSE Len(CHOOSE w \in aToken : TRUE) - Len(r.rest)
        /\ aParts' = IF r.ok
                     THEN [input |-> r.val.input, ops |-> r.val.ops, output |-> r.val.output,
                           parsed |-> TRUE]
                     ELSE aParts
    /\ aPc' = "done"
    /\ UNCHANGED <<aMode, aArgs, aToken, othersArgs>>

NextArgs == ArgsParseInput \/ ArgsParseOp \/ ArgsParseOutput \/ ArgsFinish \/ ArgsEval

SpecArgs == InitArgs /\ [][NextArgs]_vars

\* The tokens the three parsers left unconsumed.
Unconsumed == SubSeq(aArgs, aConsumed + 1, Len(aArgs))
EvalWords == IF aToken = None THEN <<>> ELSE CHOOSE w \in aToken : TRUE

\* C5: the argv parser returns Ok only if every token was consumed; when
\* input, ops and output are parsed and a token is left, it returns
\* UnknownArgs with exactly the unconsumed tokens, in order; the --eval entry
\* point returns an error when the remaining text is not empty.
C5_OkOnlyIfAllConsumed ==
    aPc = "done" =>
        /\ aRes.ok => aConsumed = Len(IF aMode = "argv" THEN aArgs ELSE EvalWords)
        /\ (aMode = "argv" /\ aParts.parsed /\ aConsumed < Len(aArgs))
            => ~aRes.ok /\ aRes.err = "UnknownArgs" /\ aRes.args = Unconsumed
        /\ (aMode = "eval" /\ aParts.parsed /\ aConsumed < Len(EvalWords))
            => ~aRes.ok /\ aRes.err = "UnexpectedRemaining"

\* A command line whose input, ops and output parsed, with tokens left over.
C5_Witness ==
    /\ aPc = "done" /\ aMode = "argv" /\ aParts.parsed
    /\ aConsumed >= 2 /\ Len(aArgs) - aConsumed >= 2
    /\ aParts.ops # <<>>
    /\ aRes = ArgsErr("UnknownArgs", Unconsumed)

\* The Op variant named after an operator keyword.
VariantOf(cmd) ==
    CASE eq_ignore_ascii_case(cmd, "upper") -> "Upper"
      [] eq_ignore_ascii_case(cmd, "lower") -> "Lower"
      [] eq_ignore_ascii_case(cmd, "case") -> "Case"
      [] eq_ignore_ascii_case(cmd, "replace") -> "Replace"
      [] eq_ignore_ascii_case(cmd, "uniq") -> "Uniq"
      [] eq_ignore_ascii_case(cmd, "peek") -> "Peek"
      [] OTHER -> "none"

\* A turn of parse_ops that pushed an Op.
OpPushed == aPc = "ops" /\ Len(aParts'.ops) = Len(aParts.ops) + 1

\* C24: in the argv parser the Op that parse_op builds for an operator
\* keyword is the variant of that keyword (upper, lower, case, replace,
\* uniq, peek), never the variant of another command.
C24_KeywordGivesItsVariant ==
    [][OpPushed => aParts'.ops[Len(aParts'.ops)].kind = VariantOf(Head(aRest))]_vars

\* Every keyword but peek gives its own variant.
C24_KeywordButPeekGivesItsVariant ==
    [][(OpPushed /\ ~eq_ignore_ascii_case(Head(aRest), "peek"))
            => aParts'.ops[Len(aParts'.ops)].kind = VariantOf(Head(aRest))]_vars

\* peek gives the Uniq variant.
C24_PeekGivesUniq ==
    [][(OpPushed /\ eq_ignore_ascii_case(Head(aRest), "peek"))
            => aParts'.ops[Len(aParts'.ops)].kind = "Uniq"]_vars

\* The command line is `of [ ...` and parse_input is about to run.
OfBracket ==
    /\ aMode = "argv" /\ aPc = "input"
    /\ Len(aArgs) >= 2 /\ eq_ignore_ascii_case(aArgs[1], "of") /\ aArgs[2] = "["

\* The tokens aArgs[3..j-1] are a non-empty list closed by the `]` at j.
ClosedAt(j) == j >= 4 /\ j <= Len(aArgs) /\ aArgs[j] = "]"
ListedValues(j) == [i \in 1..(j - 3) |-> escaped(aArgs[i + 2])]

\* C25: the argv parser accepts a bracketed list only if it is non-empty,
\* closed by `]` and holds no bare `[` or `]` token between its brackets; the
\* values are the tokens between the brackets, unescaped.
C25_BracketListWellFormed ==
    [][(OfBracket /\ aPc' = "ops")
        => /\ ClosedAt(aConsumed')
           /\ \A i \in 3..(aConsumed' - 1) : aArgs[i] \notin {"[", "]"}
           /\ aParts'.input.values = ListedValues(aConsumed')]_vars

\* The same with a bare `[` allowed between the brackets.
C25_BracketListClosedAndNonEmpty ==
    [][(OfBracket /\ aPc' = "ops")
        => /\ ClosedAt(aConsumed')
           /\ \A i \in 3..(aConsumed' - 1) : aArgs[i] # "]"
           /\ aParts'.input.values = ListedValues(aConsumed')]_vars

\* `of`, `of ]`, `of [ ]` and an unclosed `of [ a` are errors.
C25_MalformedListIsRejected ==
    [][(/\ aMode = "argv" /\ aPc = "input"
        /\ aArgs # <<>> /\ eq_ignore_ascii_case(aArgs[1], "of")
        /\ \/ Len(aArgs) = 1
           \/ aArgs[2] = "]"
           \/ aArgs[2] = "[" /\ \A i \in 3..Len(aArgs) : aArgs[i] # "]"
           \/ aArgs[2] = "[" /\ Len(aArgs) >= 3 /\ aArgs[3] = "]")
        => aPc' = "done" /\ ~aRes'.ok
           /\ aRes'.err \in {"MissingArg", "UnexpectedClosingBracket",
                             "UnclosingMultiArg", "ArgNotEnough"}]_vars

(***************************************************************************)
(* The token parser of the input command (parse/token/input.rs over the    *)
(* combinators of parse/base_parser.rs).  The command text is a sequence   *)
(* of characters.  A parser returns Ok((rest, value)) or Err(Error); alt   *)
(* tries its alternatives in order and moves on at every Err(Error).       *)
(***************************************************************************)
MaxLexemes == 4     \* pieces the command text is put together from

NOk(val, rest) == [ok |-> TRUE, val |-> val, rest |-> rest]
NErr == [ok |-> FALSE, val |-> <<>>, rest |-> <<>>]

char_to_ascii_lowercase(c) == IF c = "G" THEN "g" ELSE c
is_whitespace(c) == c \in {" ", "\t"}
is_digit(c) == c \in {"0", "1", "2", "3", "4", "5", "6", "7", "8", "9"}
digit_value(c) ==
    CASE c = "0" -> 0 [] c = "1" -> 1 [] c = "2" -> 2 [] c = "3" -> 3 [] c = "4" -> 4
      [] c = "5" -> 5 [] c = "6" -> 6 [] c = "7" -> 7 [] c = "8" -> 8 [] c = "9" -> 9

Drop(inp, n) == SubSeq(inp, n + 1, Len(inp))

\* nom tag_no_case
tag_no_case(tag, inp) ==
    IF Len(inp) >= Len(tag)
        /\ \A i \in DOMAIN tag : char_to_ascii_lowercase(inp[i]) = char_to_ascii_lowercase(tag[i])
    THEN NOk(SubSeq(inp, 1, Len(tag)), Drop(inp, Len(tag)))
    ELSE NErr

\* nom char
char(c, inp) == IF inp # <<>> /\ Head(inp) = c THEN NOk(c, Tail(inp)) ELSE NErr

\* How many leading characters are spaces or tabs, digits, or characters of an
\* unquoted argument.
RECURSIVE leading_space(_)
leading_space(inp) ==
    IF inp # <<>> /\ Head(inp) \in {" ", "\t"} THEN 1 + leading_space(Tail(inp)) ELSE 0
RECURSIVE leading_digits(_)
leading_digits(inp) ==
    IF inp # <<>> /\ is_digit(Head(inp)) THEN 1 + leading_digits(Tail(inp)) ELSE 0
RECURSIVE leading_unquoted(_)
leading_unquoted(inp) ==
    IF inp # <<>> /\ ~is_whitespace(Head(inp)) /\ Head(inp) # "\""
    THEN 1 + leading_unquoted(Tail(inp)) ELSE 0

\* nom space1
space1(inp) ==
    LET n == leading_space(inp) IN
    IF n = 0 THEN NErr ELSE NOk(SubSeq(inp, 1, n), Drop(inp, n))

RECURSIVE digits_value(_)
digits_value(ds) ==
    IF ds = <<>> THEN 0 ELSE 10 * digits_value(SubSeq(ds, 1, Len(ds) - 1)) + digit_value(ds[Len(ds)])

\* nom usize: digit1
usize(inp) ==
    LET n == leading_digits(inp) IN
    IF n = 0 THEN NErr ELSE NOk(digits_value(SubSeq(inp, 1, n)), Drop(inp, n))

\* parse_integer: an optional sign and digits.
parse_integer(inp) ==
    LET neg == inp # <<>> /\ Head(inp) = "-"
        r == usize(IF neg THEN Tail(inp) ELSE inp)
    IN IF r.ok THEN NOk(IF neg THEN 0 - r.val ELSE r.val, r.rest) ELSE NErr

\* arg: a quoted or an unquoted argument, but not a bare bracket.
arg(inp) ==
    LET quoted ==
            IF inp # <<>> /\ Head(inp) = "\"" /\ \E j \in 2..Len(inp) : inp[j] = "\""
            THEN LET j == CHOOSE k \in 2..Len(inp) :
                            inp[k] = "\"" /\ \A m \in 2..(k - 1) : inp[m] # "\""
                 IN NOk(SubSeq(inp, 2, j - 1), Drop(inp, j))
            ELSE NErr
        n == leading_unquoted(inp)
        unquoted == IF n = 0 THEN NErr ELSE NOk(SubSeq(inp, 1, n), Drop(inp, n))
        r == IF quoted.ok THEN quoted ELSE unquoted
    IN IF r.ok /\ r.val # <<"[">> /\ r.val # <<"]">> THEN r ELSE NErr

\* alt of two parsers: the second is tried when the first returns Err(Error).
alt(first, second) == IF first.ok THEN first ELSE second

\* preceded / terminated: after the result r, a parser whose output is
\* dropped (space1, char(c)) or kept in place of r's (arg).
then_space1(r) ==
    IF ~r.ok \/ ~space1(r.rest).ok THEN NErr ELSE NOk(r.val, space1(r.rest).rest)
then_char(c, r) ==
    IF ~r.ok \/ ~char(c, r.rest).ok THEN NErr ELSE NOk(r.val, char(c, r.rest).rest)
then_arg(r) == IF ~r.ok THEN NErr ELSE arg(r.rest)

\* A keyword and the spaces after it.
keyword(cmd, inp) == then_space1(tag_no_case(cmd, inp))

\* cmd_arg: `cmd arg `
cmd_arg(cmd, inp) == then_space1(then_arg(keyword(cmd, inp)))

\* many_till(terminated(arg, space1), char(']'))
RECURSIVE many_till(_, _)
many_till(inp, args) ==
    LET a == then_space1(arg(inp)) IN
    IF char("]", inp).ok THEN NOk(args, Tail(inp))
    ELSE IF ~a.ok THEN NErr
    ELSE many_till(a.rest, Append(args, a.val))

\* verify(many_till(..), |(args, _)| !args.is_empty())
then_args1(r) ==
    IF ~r.ok THEN NErr
    ELSE LET m == many_till(r.rest, <<>>) IN IF m.ok /\ m.val # <<>> THEN m ELSE NErr

\* cmd_args1: `cmd [ arg0 arg1 ] `, at least one argument
cmd_args1(cmd, inp) == then_space1(then_args1(then_space1(then_char("[", keyword(cmd, inp)))))

\* map(cmd_arg(cmd), |arg| vec![arg])
vec1(r) == IF r.ok THEN NOk(<<r.val>>, r.rest) ELSE NErr

\* cmd_arg_or_args1: alt((map(cmd_arg(cmd), |arg| vec![arg]), cmd_args1(cmd)))
cmd_arg_or_args1(cmd, inp) == alt(vec1(cmd_arg(cmd, inp)), cmd_args1(cmd, inp))

TInput(kind, values) == [kind |-> kind, values |-> values]
with_kind(kind, r) == IF r.ok THEN NOk(TInput(kind, r.val), r.rest) ELSE NErr

\* The parts of one alternative of parse_range_in_gen: start [,] [=] [end] [,]
\* [step].  A part that is not parsed is a success(..) with its default.  The
\* end left out is Integer::MAX, written {}; a step parsed must not be 0.
gen_start(inp) ==
    LET p == parse_integer(inp) IN
    IF p.ok THEN NOk([start |-> p.val, end |-> {}, closed |-> FALSE, step |-> 1], p.rest) ELSE NErr
gen_comma(parsed, r) == IF parsed THEN then_char(",", r) ELSE r
gen_close(parsed, r) ==
    IF ~parsed THEN r
    ELSE IF ~r.ok \/ ~char("=", r.rest).ok THEN NErr
    ELSE NOk([r.val EXCEPT !.closed = TRUE], Tail(r.rest))
gen_end(parsed, r) ==
    IF ~parsed THEN r
    ELSE IF ~r.ok THEN NErr
    ELSE LET p == parse_integer(r.rest) IN
         IF p.ok THEN NOk([r.val EXCEPT !.end = {p.val}], p.rest) ELSE NErr
gen_step(parsed, r) ==
    IF ~parsed THEN r
    ELSE IF ~r.ok THEN NErr
    ELSE LET p == parse_integer(r.rest) IN
         IF p.ok /\ p.val # 0 THEN NOk([r.val EXCEPT !.step = p.val], p.rest) ELSE NErr

range_in_gen_alt(inp, comma, close, end, comma2, step) ==
    gen_step(step, gen_comma(comma2, gen_end(end, gen_close(close, gen_comma(comma, gen_start(inp))))))

\* parse_range_in_gen: 0,=10,2  0,10,2  0,=10  0,10  0,,2  0
parse_range_in_gen(inp) ==
    with_kind("Gen",
        alt(range_in_gen_alt(inp, TRUE, TRUE, TRUE, TRUE, TRUE),
        alt(range_in_gen_alt(inp, TRUE, FALSE, TRUE, TRUE, TRUE),
        alt(range_in_gen_alt(inp, TRUE, TRUE, TRUE, FALSE, FALSE),
        alt(range_in_gen_alt(inp, TRUE, FALSE, TRUE, FALSE, FALSE),
        alt(range_in_gen_alt(inp, TRUE, FALSE, FALSE, TRUE, TRUE),
            range_in_gen_alt(inp, FALSE, FALSE, FALSE, FALSE, FALSE)))))))

parse_std_in(inp) == with_kind("StdIn", keyword(<<"i", "n">>, inp))
parse_file(inp) == with_kind("File", cmd_arg_or_args1(<<"f", "i", "l", "e">>, inp))
parse_clip(inp) == with_kind("Clip", keyword(<<"c", "l", "i", "p">>, inp))
parse_of(inp) == with_kind("Of", cmd_arg_or_args1(<<"o", "f">>, inp))

\* preceded((tag_no_case("gen"), space1), terminated(parse_range_in_gen, space1))
parse_gen(inp) ==
    LET k == keyword(<<"g", "e", "n">>, inp) IN
    IF ~k.ok THEN NErr ELSE then_space1(parse_range_in_gen(k.rest))

\* (arg, opt(preceded(space1, usize))): the value and the optional count
then_opt_count(r) ==
    IF ~r.ok THEN NErr
    ELSE LET s1 == space1(r.rest)
             n == IF s1.ok THEN usize(s1.rest) ELSE NErr
         IN IF n.ok THEN NOk([value |-> r.val, count |-> Some(n.val)], n.rest)
            ELSE NOk([value |-> r.val, count |-> None], r.rest)

parse_repeat(inp) ==
    with_kind("Repeat", then_space1(then_opt_count(then_arg(keyword(<<"r", "e", "p", "e", "a", "t">>, inp)))))

\* parse_input: the alternatives in order; the last one, success(()), takes
\* nothing and yields StdIn.
token_parse_input(inp) ==
    alt(parse_std_in(inp), alt(parse_file(inp), alt(parse_clip(inp), alt(parse_of(inp),
    alt(parse_gen(inp), alt(parse_repeat(inp), NOk(TInput("StdIn", <<>>), inp)))))))

\* The pieces command texts are put together from.
Lexemes ==
    {<<"f", "i", "l", "e", " ">>, <<"o", "f", " ">>, <<"G", "e", "n", " ">>,
     <<"r", "e", "p", "e", "a", "t", " ">>, <<"[", " ">>, <<"]", " ">>, <<"a", " ">>,
     <<"0", ",">>, <<"=">>, <<"0", " ">>, <<"2", " ">>}

RECURSIVE Flatten(_)
Flatten(ss) == IF ss = <<>> THEN <<>> ELSE Head(ss) \o Flatten(Tail(ss))

\* parse_num of the token grammar: an optional sign, digits and an optional
\* fraction; the value is <<integer part, fraction digits>>.
token_parse_num(inp) ==
    LET i == parse_integer(inp)
        f == IF i.ok /\ char(".", i.rest).ok THEN usize(Tail(i.rest)) ELSE NErr
    IN IF ~i.ok THEN NErr
       ELSE IF f.ok THEN NOk(<<i.val, f.val>>, f.rest) ELSE NOk(<<i.val>>, i.rest)

\* parse_2_choice(a, b): true for the first word, false for the second.
parse_2_choice(a, b, inp) ==
    IF tag_no_case(a, inp).ok THEN NOk(TRUE, tag_no_case(a, inp).rest)
    ELSE IF tag_no_case(b, inp).ok THEN NOk(FALSE, tag_no_case(b, inp).rest)
    ELSE NErr

\* The argument parser handed to parse_cond_range / parse_cond_spec.
cond_arg(kind, inp) == IF kind = "usize" THEN usize(inp) ELSE token_parse_num(inp)

\* peek(alt((space1, eof))) after the result r.
then_peek_space1_or_eof(r) ==
    IF r.ok /\ (r.rest = <<>> \/ space1(r.rest).ok) THEN r ELSE NErr

\* The steps of parse_cond_range's tuple, each applied to the result so far.
range_space1(inp) ==
    IF space1(inp).ok
    THEN NOk([min |-> None, max |-> None, not |-> FALSE], space1(inp).rest)
    ELSE NErr
cond_opt_not(r) ==
    IF r.ok /\ char("!", r.rest).ok THEN NOk([r.val EXCEPT !.not = TRUE], Tail(r.rest)) ELSE r
range_opt_min(kind, r) ==
    IF r.ok /\ cond_arg(kind, r.rest).ok
    THEN NOk([r.val EXCEPT !.min = Some(cond_arg(kind, r.rest).val)], cond_arg(kind, r.rest).rest)
    ELSE r
range_opt_max(kind, r) ==
    IF r.ok /\ cond_arg(kind, r.rest).ok
    THEN NOk([r.val EXCEPT !.max = Some(cond_arg(kind, r.rest).val)], cond_arg(kind, r.rest).rest)
    ELSE r
range_verify(r) == IF r.ok /\ (r.val.min # None \/ r.val.max # None) THEN r ELSE NErr

\* parse_cond_range(range_arg)
parse_cond_range(kind, inp) ==
    range_verify(then_peek_space1_or_eof(range_opt_max(kind,
        then_char(",", range_opt_min(kind, cond_opt_not(range_space1(inp)))))))

\* parse_cond_spec(spec_arg)
spec_space1(inp) ==
    IF space1(inp).ok THEN NOk([spec |-> None, not |-> FALSE], space1(inp).rest) ELSE NErr
spec_value(kind, r) ==
    IF r.ok /\ cond_arg(kind, r.rest).ok
    THEN NOk([r.val EXCEPT !.spec = Some(cond_arg(kind, r.rest).val)], cond_arg(kind, r.rest).rest)
    ELSE NErr
parse_cond_spec(kind, inp) ==
    then_peek_space1_or_eof(spec_value(kind, then_char("=", cond_opt_not(spec_space1(inp)))))

\* alt((value(true, tag_no_case("integer")), value(false, tag_no_case("float"))))
num_type(inp) ==
    parse_2_choice(<<"i", "n", "t", "e", "g", "e", "r">>, <<"f", "l", "o", "a", "t">>, inp)

\* Cond::new_number(num_type, not)
new_number(type, not) == [kind |-> "Number", type |-> type, not |-> not]

\* parse_cond_number: "!" with an optional type, or an optional "!" with a
\* type, or success(Cond::new_number(None, false)) that consumes nothing.
number_not(inp) ==
    LET r == then_char("!", space1(inp)) IN
    IF ~r.ok THEN NErr
    ELSE IF num_type(r.rest).ok
         THEN NOk(new_number(Some(num_type(r.rest).val), TRUE), num_type(r.rest).rest)
         ELSE NOk(new_number(None, TRUE), r.rest)
number_typed(inp) ==
    LET r == cond_opt_not(spec_space1(inp)) IN
    IF r.ok /\ num_type(r.rest).ok
    THEN NOk(new_number(Some(num_type(r.rest).val), r.val.not), num_type(r.rest).rest)
    ELSE NErr
parse_cond_number(inp) ==
    alt(number_not(inp), alt(number_typed(inp), NOk(new_number(None, FALSE), inp)))

\* preceded(tag_no_case(word), p): p on what follows the word.
after_tag(word, inp) == IF tag_no_case(word, inp).ok THEN tag_no_case(word, inp).rest ELSE <<>>
cond_of(kind, word, r, inp) ==
    IF tag_no_case(word, inp).ok /\ r.ok THEN NOk([kind |-> kind, arg |-> r.val], r.rest) ELSE NErr

parse_cond_text_all_case(inp) ==
    cond_of("TextAllCase", <<>>,
            parse_2_choice(<<"u", "p", "p", "e", "r">>, <<"l", "o", "w", "e", "r">>, inp), inp)
parse_cond_text_empty_or_blank(inp) ==
    cond_of("TextEmptyOrBlank", <<>>,
            parse_2_choice(<<"e", "m", "p", "t", "y">>, <<"b", "l", "a", "n", "k">>, inp), inp)
parse_cond_reg_match(inp) ==
    cond_of("RegMatch", <<"r", "e", "g">>, then_arg(keyword(<<"r", "e", "g">>, inp)), inp)

\* The alternatives of parse_cond, in the order of its alt.
cond_alt(inp) ==
    LET len == <<"l", "e", "n">>
        num == <<"n", "u", "m">>
        number == parse_cond_number(after_tag(num, inp))
    IN alt(cond_of("TextLenRange", len, parse_cond_range("usize", after_tag(len, inp)), inp),
       alt(cond_of("TextLenSpec", len, parse_cond_spec("usize", after_tag(len, inp)), inp),
       alt(cond_of("NumRange", num, parse_cond_range("num", after_tag(num, inp)), inp),
       alt(cond_of("NumSpec", num, parse_cond_spec("num", after_tag(num, inp)), inp),
       alt(IF tag_no_case(num, inp).ok THEN number ELSE NErr,
       alt(parse_cond_text_all_case(inp),
       alt(parse_cond_text_empty_or_blank(inp),
           parse_cond_reg_match(inp))))))))

\* parse_cond: one alternative and the ending space1.
parse_cond(inp) == then_space1(cond_alt(inp))

\* Condition texts: a keyword, then optionally a space, "!", a first
\* argument, a separator, a second argument and an ending space.
CondKeywords ==
    {<<"l", "e", "n">>, <<"n", "u", "m">>, <<"u", "p", "p", "e", "r">>, <<"r", "e", "g">>}
CondFirstArgs == {<<>>, <<"3">>, <<"i", "n", "t", "e", "g", "e", "r">>, <<"a">>}
CondParseTexts ==
    {Flatten(<<kw, sp, not, a, sep, b, end>>) :
        kw \in CondKeywords, sp \in {<<>>, <<" ">>}, not \in {<<>>, <<"!">>},
        a \in CondFirstArgs, sep \in {<<>>, <<",">>, <<"=">>},
        b \in {<<>>, <<"3">>}, end \in {<<>>, <<" ">>}}

InitToken ==
    /\ \/ /\ \E ls \in SeqsUpTo(Lexemes, MaxLexemes) : tText = Flatten(ls)
          /\ tPc = "ready"
       \/ /\ tText \in CondParseTexts
          /\ tPc = "cond"
    /\ tRes = NErr
    /\ IdleCond /\ IdleErr /\ IdleRepl /\ IdleRun /\ IdleArgs /\ IdleTrim /\ IdleOp /\ IdleInput

\* parse_input(text)
TokenParseInput ==
    /\ tPc = "ready"
    /\ tRes' = token_parse_input(tText)
    /\ tPc' = "parsed"
    /\ UNCHANGED <<tText, othersToken>>

\* parse_cond(text)
TokenParseCond ==
    /\ tPc = "cond"
    /\ tRes' = parse_cond(tText)
    /\ tPc' = "cond_parsed"
    /\ UNCHANGED <<tText, othersToken>>

NextToken == TokenParseInput \/ TokenParseCond

SpecToken == InitToken /\ [][NextToken]_vars

\* The text starts with one of the keywords file, of, gen, repeat and a space.
StartsWithInputKeyword ==
    \E cmd \in {<<"f", "i", "l", "e">>, <<"o", "f">>, <<"g", "e", "n">>,
                <<"r", "e", "p", "e", "a", "t">>} : keyword(cmd, tText).ok

\* C6: when the text starts with an input keyword, parse_input parses that
\* command or returns an error; it never succeeds as the default StdIn with
\* the keyword left unconsumed.
C6_KeywordNeverFallsThrough ==
    (tPc = "parsed" /\ StartsWithInputKeyword)
        => ~(tRes.ok /\ tRes.val.kind = "StdIn" /\ tRes.rest = tText)

\* The text is `of [ ` or `file [ ` and more.
StartsWithBracketList ==
    \E cmd \in {<<"f", "i", "l", "e">>, <<"o", "f">>} :
        then_space1(then_char("[", keyword(cmd, tText))).ok

\* In the token grammar an accepted bracketed list is non-empty and holds
\* no bare bracket.
C25_TokenBracketListWellFormed ==
    (tPc = "parsed" /\ StartsWithBracketList /\ tRes.ok /\ tRes.val.kind \in {"Of", "File"})
        => /\ tRes.val.values # <<>>
           /\ \A i \in DOMAIN tRes.val.values : tRes.val.values[i] \notin {<<"[">>, <<"]">>}

\* The four range-style texts that give neither bound.
NoBoundRangeTexts ==
    {<<"l", "e", "n", " ", ",", " ">>, <<"l", "e", "n", " ", "!", ",", " ">>,
     <<"n", "u", "m", " ", ",", " ">>, <<"n", "u", "m", " ", "!", ",", " ">>}

\* C23: parse_cond returns an error for each range-style condition text
\* that gives neither bound ("len , ", "len !, ", "num , ", "num !, ").
C23_NoBoundRangeIsRejected ==
    (tPc = "cond_parsed" /\ tText \in NoBoundRangeTexts) => ~tRes.ok

\* Three of the four are errors; "num , " is not among them.
C23_NoBoundRangeButBareNum ==
    (tPc = "cond_parsed" /\ tText \in NoBoundRangeTexts /\ tText # <<"n", "u", "m", " ", ",", " ">>)
        => ~tRes.ok

\* "num , " parses as the bare number condition and leaves ", ".
C23_BareNumLeavesComma ==
    (tPc = "cond_parsed" /\ tText = <<"n", "u", "m", " ", ",", " ">>)
        => tRes = NOk(new_number(None, FALSE), <<",", " ">>)

(***************************************************************************)
(* SpecTrim: TrimArg (op/trim.rs).  One record is trimmed by the three     *)
(* TrimArg built from one pattern: with TrimPos::Both, with TrimPos::Head, *)
(* and the Head result again with TrimPos::Tail.                           *)
(***************************************************************************)
MaxTrimLen == 3       \* code points of the record
MaxPatternLen == 2    \* code points of a literal or character-set pattern

TrimPos == {"Head", "Tail", "Both"}

\* char::to_ascii_lowercase and String::make_ascii_lowercase.
cp_to_ascii_lowercase(c) == IF c >= 65 /\ c <= 90 THEN c + 32 ELSE c
make_ascii_lowercase(s) == [i \in 1..Len(s) |-> cp_to_ascii_lowercase(s[i])]

\* char::is_whitespace, which str::trim strips from both ends.
is_white_space(c) == c \in {9, 10, 11, 12, 13, 32, 133, 160}

\* How many leading (trailing) code points of s satisfy keep[i] = TRUE.
leading(keep) ==
    LET stop == {i \in 1..Len(keep) : ~keep[i]}
    IN  IF stop = {} THEN Len(keep) ELSE (CHOOSE i \in stop : \A j \in stop : i <= j) - 1
trailing(keep) ==
    LET stop == {i \in 1..Len(keep) : ~keep[i]}
    IN  IF stop = {} THEN Len(keep) ELSE Len(keep) - (CHOOSE i \in stop : \A j \in stop : i >= j)

\* &s[from..] and &s[..to] with 0-based offsets, as Rust slices.
slice_from(s, from) == SubSeq(s, from + 1, Len(s))
slice_to(s, to) == SubSeq(s, 1, to)

\* str::trim
str_trim(s) ==
    LET white == [i \in 1..Len(s) |-> is_white_space(s[i])]
        head == slice_from(s, leading(white))
    IN  slice_to(head, Len(head) - trailing([i \in 1..Len(head) |-> is_white_space(head[i])]))

\* str::strip_prefix(pattern).unwrap_or(s) and str::strip_suffix(pattern).unwrap_or(s)
strip_prefix_or(s, pattern) ==
    IF Len(pattern) <= Len(s) /\ slice_to(s, Len(pattern)) = pattern
    THEN slice_from(s, Len(pattern)) ELSE s
strip_suffix_or(s, pattern) ==
    IF Len(pattern) <= Len(s) /\ slice_from(s, Len(s) - Len(pattern)) = pattern
    THEN slice_to(s, Len(s) - Len(pattern)) ELSE s

\* The loop of trim_head_str_nocase: the record's characters are lowered, the
\* pattern's are taken as they are.
trim_head_str_nocase(to_trim, pattern) ==
    IF Len(to_trim) < Len(pattern) THEN to_trim
    ELSE IF \E i \in 1..Len(pattern) : cp_to_ascii_lowercase(to_trim[i]) # pattern[i] THEN to_trim
    ELSE slice_from(to_trim, Len(pattern))
trim_tail_str_nocase(to_trim, pattern) ==
    LET off == Len(to_trim) - Len(pattern)
    IN  IF off < 0 THEN to_trim
        ELSE IF \E i \in 1..Len(pattern) : cp_to_ascii_lowercase(to_trim[off + i]) # pattern[i]
             THEN to_trim
        ELSE slice_to(to_trim, off)

trim_head_char_nocase(to_trim, chars) ==
    slice_from(to_trim,
        leading([i \in 1..Len(to_trim) |-> cp_to_ascii_lowercase(to_trim[i]) \in Range(chars)]))
trim_tail_char_nocase(to_trim, chars) ==
    slice_to(to_trim, Len(to_trim)
        - trailing([i \in 1..Len(to_trim) |-> cp_to_ascii_lowercase(to_trim[i]) \in Range(chars)]))
trim_head_char(to_trim, chars) ==
    slice_from(to_trim, leading([i \in 1..Len(to_trim) |-> to_trim[i] \in Range(chars)]))
trim_tail_char(to_trim, chars) ==
    slice_to(to_trim, Len(to_trim) - trailing([i \in 1..Len(to_trim) |-> to_trim[i] \in Range(chars)]))

\* The regex crate, for the three expressions of the model.  reg_lens gives the
\* lengths of the matches of `reg` that start at the head of t, in the order of
\* preference of the engine (greedy repetition, leftmost alternative first).
Regs == {"\\d+", "a*", "a|aA"}
Countdown(hi, lo) == [i \in 1..(hi - lo + 1) |-> hi + 1 - i]
reg_lens(reg, t) ==
    CASE reg = "\\d+" -> Countdown(leading([i \in 1..Len(t) |-> IsDigit(t[i])]), 1)
      [] reg = "a*" -> Countdown(leading([i \in 1..Len(t) |-> t[i] = Ch.a]), 0)
      [] reg = "a|aA" ->
            (IF Len(t) >= 1 /\ t[1] = Ch.a THEN <<1>> ELSE <<>>)
            \o (IF Len(t) >= 2 /\ t[1] = Ch.a /\ t[2] = Ch.A THEN <<2>> ELSE <<>>)

\* Regex::find for \A(?:reg) and for (?:reg)\z: the leftmost match, None if
\* there is none.
regex_find(regex, text) ==
    IF regex.anchor = "\\A"
    THEN LET lens == reg_lens(regex.reg, text)
         IN  IF lens = <<>> THEN None ELSE Some([start |-> 0, end |-> lens[1]])
    ELSE LET starts == {i \in 0..Len(text) :
                           Len(text) - i \in Range(reg_lens(regex.reg, slice_from(text, i)))}
         IN  IF starts = {} THEN None
             ELSE Some([start |-> CHOOSE i \in starts : \A j \in starts : i <= j,
                        end |-> Len(text)])

trim_head_regex(text, regex) ==
    LET mat == regex_find(regex, text)
    IN  IF mat # None THEN slice_from(text, (CHOOSE m \in mat : TRUE).end) ELSE text
trim_tail_regex(text, regex) ==
    LET mat == regex_find(regex, text)
    IN  IF mat # None THEN slice_to(text, (CHOOSE m \in mat : TRUE).start) ELSE text

\* The constructors of TrimArg.
new_blank(pos) == [pos |-> pos, param |-> [kind |-> "Blank"], nocase |-> FALSE]
new_str(pos, pattern, nocase) ==
    [pos |-> pos,
     param |-> [kind |-> "Str",
                pattern |-> IF nocase THEN make_ascii_lowercase(pattern) ELSE pattern],
     nocase |-> nocase]
RECURSIVE dedup(_)
dedup(s) ==
    IF s = <<>> THEN <<>>
    ELSE LET front == dedup(SubSeq(s, 1, Len(s) - 1))
         IN  IF s[Len(s)] \in Range(front) THEN front ELSE Append(front, s[Len(s)])
new_chars(pos, pattern, nocase) ==
    [pos |-> pos,
     param |-> [kind |-> "Chars",
                chars |-> dedup(IF nocase THEN make_ascii_lowercase(pattern) ELSE pattern)],
     nocase |-> nocase]
new_regex(pos, reg) ==
    [pos |-> pos,
     param |-> [kind |-> "Regex",
                primary |-> [anchor |-> IF pos = "Tail" THEN "\\z" ELSE "\\A", reg |-> reg],
                secondary |-> IF pos = "Both" THEN Some([anchor |-> "\\z", reg |-> reg])
                              ELSE None],
     nocase |-> FALSE]

\* A variant of TrimArg::trim that treats Both as Head.
trim_mutant_both_is_head(self, to_trim, configs) ==
    LET p == self.param
        head == self.pos \in {"Head", "Both"}
    IN  CASE p.kind = "Blank" -> str_trim(to_trim)
          [] p.kind = "Str" ->
                IF is_nocase(self.nocase, configs)
                THEN IF head THEN trim_head_str_nocase(to_trim, p.pattern)
                     ELSE trim_tail_str_nocase(to_trim, p.pattern)
                ELSE IF head THEN strip_prefix_or(to_trim, p.pattern)
                     ELSE strip_suffix_or(to_trim, p.pattern)
          [] p.kind = "Chars" ->
                IF is_nocase(self.nocase, configs)
                THEN IF head THEN trim_head_char_nocase(to_trim, p.chars)
                     ELSE trim_tail_char_nocase(to_trim, p.chars)
                ELSE IF head THEN trim_head_char(to_trim, p.chars)
                     ELSE trim_tail_char(to_trim, p.chars)
          [] p.kind = "Regex" ->
                IF head THEN trim_head_regex(to_trim, p.primary)
                ELSE trim_tail_regex(to_trim, p.primary)

\* TrimArg::trim
trim(self, to_trim, configs) ==
    LET p == self.param
    IN  CASE p.kind = "Blank" -> str_trim(to_trim)
          [] p.kind = "Str" /\ is_nocase(self.nocase, configs) ->
                (CASE self.pos = "Head" -> trim_head_str_nocase(to_trim, p.pattern)
                   [] self.pos = "Tail" -> trim_tail_str_nocase(to_trim, p.pattern)
                   [] self.pos = "Both" ->
                        trim_tail_str_nocase(trim_head_str_nocase(to_trim, p.pattern), p.pattern))
          [] p.kind = "Str" /\ ~is_nocase(self.nocase, configs) ->
                (CASE self.pos = "Head" -> strip_prefix_or(to_trim, p.pattern)
                   [] self.pos = "Tail" -> strip_suffix_or(to_trim, p.pattern)
                   [] self.pos = "Both" ->
                        strip_suffix_or(strip_prefix_or(to_trim, p.pattern), p.pattern))
          [] p.kind = "Chars" /\ is_nocase(self.nocase, configs) ->
                (CASE self.pos = "Head" -> trim_head_char_nocase(to_trim, p.chars)
                   [] self.pos = "Tail" -> trim_tail_char_nocase(to_trim, p.chars)
                   [] self.pos = "Both" ->
                        trim_tail_char_nocase(trim_head_char_nocase(to_trim, p.chars), p.chars))
          [] p.kind = "Chars" /\ ~is_nocase(self.nocase, configs) ->
                (CASE self.pos = "Head" -> trim_head_char(to_trim, p.chars)
                   [] self.pos = "Tail" -> trim_tail_char(to_trim, p.chars)
                   [] self.pos = "Both" ->
                        trim_tail_char(trim_head_char(to_trim, p.chars), p.chars))
          [] p.kind = "Regex" ->
                (CASE self.pos = "Head" -> trim_head_regex(to_trim, p.primary)
                   [] self.pos = "Tail" -> trim_tail_regex(to_trim, p.primary)
                   [] self.pos = "Both" ->
                        IF p.secondary # None
                        THEN trim_tail_regex(trim_head_regex(to_trim, p.primary),
                                             CHOOSE r \in p.secondary : TRUE)
                        ELSE trim_head_regex(to_trim, p.primary))

\* The TrimArg of one pattern for a position.
trim_arg(pos, pat) ==
    CASE pat.kind = "Blank" -> new_blank(pos)
      [] pat.kind = "Str" -> new_str(pos, pat.pattern, pat.nocase)
      [] pat.kind = "Chars" -> new_chars(pos, pat.pattern, pat.nocase)
      [] pat.kind = "Regex" -> new_regex(pos, pat.pattern)

TrimAlphabet == {Ch.sp, Ch.a, Ch.A, Ch.d7}
TrimTexts == SeqsUpTo(TrimAlphabet, MaxTrimLen)
TrimPatterns ==
    {[kind |-> "Blank", pattern |-> <<>>, nocase |-> FALSE]}
    \cup {[kind |-> k, pattern |-> p, nocase |-> n] :
            k \in {"Str", "Chars"}, p \in SeqsUpTo({Ch.a, Ch.A}, MaxPatternLen) \ {<<>>},
            n \in BOOLEAN}
    \cup {[kind |-> "Regex", pattern |-> r, nocase |-> FALSE] : r \in Regs}

InitTrim ==
    /\ mText \in TrimTexts
    /\ mPattern \in TrimPatterns
    /\ mConfigs \in SUBSET {"Nocase"}
    /\ mPc = "ready"
    /\ mBoth = None /\ mHead = None /\ mHeadTail = None
    /\ IdleCond /\ IdleErr /\ IdleRepl /\ IdleRun /\ IdleArgs /\ IdleToken /\ IdleOp /\ IdleInput

TrimPc(both, headTail) == IF both # None /\ headTail # None THEN "done" ELSE "trimming"

\* The Trim stage with TrimPos::Both maps the record.
TrimBoth ==
    /\ mPc # "idle" /\ mBoth = None
    /\ mBoth' = Some(trim(trim_arg("Both", mPattern), mText, mConfigs))
    /\ mPc' = TrimPc(mBoth', mHeadTail)
    /\ UNCHANGED <<mText, mPattern, mConfigs, mHead, mHeadTail>>
    /\ UNCHANGED othersTrim

\* The Trim stage with TrimPos::Head maps the record.
TrimHead ==
    /\ mPc # "idle" /\ mHead = None
    /\ mHead' = Some(trim(trim_arg("Head", mPattern), mText, mConfigs))
    /\ mPc' = "trimming"
    /\ UNCHANGED <<mText, mPattern, mConfigs, mBoth, mHeadTail>>
    /\ UNCHANGED othersTrim

\* A following Trim stage with TrimPos::Tail maps what the Head stage gave.
TrimTail ==
    /\ mHead # None /\ mHeadTail = None
    /\ mHeadTail' = Some(trim(trim_arg("Tail", mPattern), CHOOSE h \in mHead : TRUE, mConfigs))
    /\ mPc' = TrimPc(mBoth, mHeadTail')
    /\ UNCHANGED <<mText, mPattern, mConfigs, mBoth, mHead>>
    /\ UNCHANGED othersTrim

NextTrim == TrimBoth \/ TrimHead \/ TrimTail

SpecTrim == InitTrim /\ [][NextTrim]_vars

\* C11: for every trim kind and every record, trimming with position Both
\* gives what trimming with Head and then trimming that result with Tail gives,
\* the three TrimArg being built from the same pattern.
C11_BothIsHeadThenTail == mPc = "done" => mBoth = mHeadTail

\* Both ends were trimmed, by a regex and by a caseless literal.
C11_Witness ==
    /\ mPc = "done" /\ mPattern.kind \in {"Regex", "Str"}
    /\ mHead # Some(mText) /\ mHeadTail # mHead /\ mBoth = mHeadTail
    /\ mHeadTail # Some(<<>>)

\* The record without its leading whitespace.
WithoutLeadingBlank(s) == slice_from(s, leading([i \in 1..Len(s) |-> is_white_space(s[i])]))

\* C26: a head trim without a pattern removes only the leading whitespace and
\* leaves the rest of the record, trailing whitespace included, as it was.
C26_BlankHeadTrimKeepsTail ==
    (mPattern.kind = "Blank" /\ mHead # None) => mHead = Some(WithoutLeadingBlank(mText))

\* s and t are equal when the case of ASCII letters is ignored.
EqIgnoreAsciiCase(s, t) ==
    Len(s) = Len(t) /\ \A i \in 1..Len(s) : cp_to_ascii_lowercase(s[i]) = cp_to_ascii_lowercase(t[i])

\* C29: under the global nocase config a literal head trim built without its
\* own nocase flag removes a head that equals the pattern when case is
\* ignored, whatever the casing of the pattern.
C29_GlobalNocaseTrimsAnyCasing ==
    (/\ mPattern.kind = "Str" /\ ~mPattern.nocase /\ "Nocase" \in mConfigs /\ mHead # None
     /\ Len(mText) >= Len(mPattern.pattern)
     /\ EqIgnoreAsciiCase(slice_to(mText, Len(mPattern.pattern)), mPattern.pattern))
        => mHead = Some(slice_from(mText, Len(mPattern.pattern)))

(***************************************************************************)
(* SpecOp: one stage that Op::wrap puts on the pipe (op/mod.rs), between a *)
(* source that yields the records oIn and a consumer that calls next()     *)
(* until it returns None, or drops the pipe earlier.                       *)
(***************************************************************************)
MaxRecords == 3     \* records the source yields

OpItems ==
    {<<Ch.x>>, <<Ch.eacute>>, <<Ch.Eacute>>, <<Ch.d3>>, <<Ch.d1>>}

\* The subsequence of s at the indices in I.
RECURSIVE at_indices(_, _)
at_indices(s, I) ==
    IF s = <<>> THEN <<>>
    ELSE at_indices(SubSeq(s, 1, Len(s) - 1), I) \o (IF Len(s) \in I THEN <<s[Len(s)]>> ELSE <<>>)

Least(I) == CHOOSE i \in I : \A j \in I : i <= j

\* What an iterator's next() returns, and the iterator afterwards.
Yield(item, it, pos) == [item |-> Some(item), iter |-> [it EXCEPT !.pos = pos], peeked |-> <<>>]
Exhausted(it, pos) == [item |-> None, iter |-> [it EXCEPT !.pos = pos], peeked |-> <<>>]

\* Op::Uniq: the key the closure inserts into `seen`.
uniq_key(item, nocase, configs) ==
    IF is_nocase(nocase, configs) THEN make_ascii_uppercase(item) ELSE item

\* Op::Uniq: filter(|item| seen.insert(key)).next()
uniq_next(op, it, items, configs) ==
    LET fresh == {i \in (it.pos + 1)..Len(items) :
                    uniq_key(items[i], op.nocase, configs) \notin it.seen}
    IN  IF fresh = {} THEN Exhausted(it, Len(items))
        ELSE Yield(items[Least(fresh)],
                   [it EXCEPT !.seen = @ \cup {uniq_key(items[Least(fresh)], op.nocase, configs)}],
                   Least(fresh))

\* Stands for Float::MAX, the default key of ordinary numeric Sort: above every
\* number a record of the model parses to.
FloatMax == 2147483647

\* item.parse() to Integer or to Float: the records of the model that parse are
\* the ones made of decimal digits.
item_parse(item) ==
    IF item # <<>> /\ \A i \in 1..Len(item) : IsDigit(item[i]) THEN Some(DigitsValue(item)) ELSE None
unwrap_or(opt, def) == IF opt = None THEN def ELSE CHOOSE v \in opt : TRUE

\* A variant of the sort key that keys the unparseable records by 0.
sort_key_mutant_default_zero(sort_by, item, configs) ==
    CASE sort_by.kind = "Num" -> <<unwrap_or(item_parse(item), 0)>>
      [] sort_by.kind = "Text" /\ is_nocase(sort_by.nocase, configs) -> to_lowercase(item)
      [] sort_by.kind = "Text" /\ ~is_nocase(sort_by.nocase, configs) -> Utf8(item)

\* Op::Sort: the key_fn closures.  A key is a sequence of integers, compared
\* lexicographically: one number for SortBy::Num, the bytes of the record for
\* SortBy::Text, its case-folded characters under UniCase.
sort_key(sort_by, item, configs) ==
    CASE sort_by.kind = "Num" /\ sort_by.def_integer # None ->
            <<unwrap_or(item_parse(item), CHOOSE d \in sort_by.def_integer : TRUE)>>
      [] sort_by.kind = "Num" /\ sort_by.def_integer = None ->
            <<unwrap_or(item_parse(item), unwrap_or(sort_by.def_float, FloatMax))>>
      [] sort_by.kind = "Text" /\ is_nocase(sort_by.nocase, configs) -> to_lowercase(item)
      [] sort_by.kind = "Text" /\ ~is_nocase(sort_by.nocase, configs) -> Utf8(item)

\* A variant of the sort that sorts ascending and reverses the result for desc.
RECURSIVE sort_mutant_desc_reverses(_, _, _)
sort_mutant_desc_reverses(s, op, configs) ==
    IF s = <<>> THEN <<>>
    ELSE LET t == sort_mutant_desc_reverses(SubSeq(s, 1, Len(s) - 1), op, configs)
             kx == sort_key(op.sort_by, s[Len(s)], configs)
             k == Cardinality({i \in DOMAIN t :
                     IF op.desc THEN str_lt(kx, sort_key(op.sort_by, t[i], configs))
                     ELSE ~str_lt(kx, sort_key(op.sort_by, t[i], configs))})
         IN  SubSeq(t, 1, k) \o <<s[Len(s)]>> \o SubSeq(t, k + 1, Len(t))

\* Op::Sort: pipe.sorted_by_key(key_fn), or sorted_by_key(|item| Reverse(key_fn(item)))
\* when desc: a stable sort, so a record goes behind the records that are not
\* greater than it (not less than it when the keys are wrapped in Reverse).
RECURSIVE sort_stage(_, _, _)
sort_stage(s, op, configs) ==
    IF s = <<>> THEN <<>>
    ELSE LET t == sort_stage(SubSeq(s, 1, Len(s) - 1), op, configs)
             kx == sort_key(op.sort_by, s[Len(s)], configs)
             k == Cardinality({i \in DOMAIN t :
                     IF op.desc THEN ~str_lt(sort_key(op.sort_by, t[i], configs), kx)
                     ELSE ~str_lt(kx, sort_key(op.sort_by, t[i], configs))})
         IN  SubSeq(t, 1, k) \o <<s[Len(s)]>> \o SubSeq(t, k + 1, Len(t))

\* The iterator over a vector Op::wrap collected: vec::IntoIter, iter::once.
sort_next(it) ==
    IF it.buf = <<>> THEN [item |-> None, iter |-> it, peeked |-> <<>>]
    ELSE [item |-> Some(Head(it.buf)), iter |-> [it EXCEPT !.buf = Tail(@)], peeked |-> <<>>]

SortBys ==
    {[kind |-> "Num", def_integer |-> None, def_float |-> None],
     [kind |-> "Num", def_integer |-> Some(2), def_float |-> None],
     [kind |-> "Num", def_integer |-> None, def_float |-> Some(0)],
     [kind |-> "Text", nocase |-> FALSE],
     [kind |-> "Text", nocase |-> TRUE]}

MaxBatch == 2       \* the batch size of a Join

\* [String]::join(delimiter)
RECURSIVE join(_, _)
join(chunk, delimiter) ==
    IF chunk = <<>> THEN <<>>
    ELSE IF Len(chunk) = 1 THEN chunk[1]
    ELSE chunk[1] \o delimiter \o join(Tail(chunk), delimiter)

\* format!("{}{}{}", join_info.prefix, chunk.join(&join_info.delimiter), join_info.postfix)
join_format(join_info, chunk) == join_info.prefix \o join(chunk, join_info.delimiter) \o join_info.postfix

\* A variant of ChunkJoin::next that gives up on a chunk shorter than group_size.
chunk_join_mutant_drops_partial(op, it, items) ==
    LET group_size == CHOOSE b \in op.batch : TRUE
        chunk == SubSeq(items, it.pos + 1, it.pos + group_size)
    IN  IF it.pos + group_size > Len(items) THEN Exhausted(it, Len(items))
        ELSE Yield(join_format(op.join_info, chunk), it, it.pos + group_size)

\* ChunkJoin::next: up to group_size records of the source make one record.
chunk_join_next(op, it, items) ==
    LET group_size == CHOOSE b \in op.batch : TRUE
        upto == IF it.pos + group_size < Len(items) THEN it.pos + group_size ELSE Len(items)
        chunk == SubSeq(items, it.pos + 1, upto)
    IN  IF chunk = <<>> THEN Exhausted(it, upto)
        ELSE Yield(join_format(op.join_info, chunk), it, upto)

JoinInfos ==
    {[delimiter |-> <<>>, prefix |-> <<>>, postfix |-> <<>>],
     [delimiter |-> <<Ch.comma>>, prefix |-> <<Ch.lbracket>>, postfix |-> <<Ch.rbracket>>]}

\* Whether a range (Option<usize>, Option<usize>) of Op::Slice holds a 0-based
\* index: both ends are inclusive, a missing end is open.
in_range(range, idx) ==
    /\ range[1] = None \/ \E start \in range[1] : start <= idx
    /\ range[2] = None \/ \E end \in range[2] : idx <= end

\* A variant of SliceIter::next that takes the end of a range as exclusive.
slice_mutant_end_exclusive(op, it, items) ==
    LET kept == {i \in (it.pos + 1)..Len(items) :
                    \E k \in 1..Len(op.ranges) :
                        /\ in_range(op.ranges[k], i - 1)
                        /\ op.ranges[k][2] # Some(i - 1)}
    IN  IF kept = {} THEN Exhausted(it, Len(items)) ELSE Yield(items[Least(kept)], it, Least(kept))

\* SliceIter::next: the next record of the source whose running index lies in
\* one of the ranges.
slice_next(op, it, items) ==
    LET kept == {i \in (it.pos + 1)..Len(items) :
                    \E k \in 1..Len(op.ranges) : in_range(op.ranges[k], i - 1)}
    IN  IF kept = {} THEN Exhausted(it, Len(items)) ELSE Yield(items[Least(kept)], it, Least(kept))

SliceRanges ==
    {<<>>,
     <<<<Some(0), Some(1)>>, <<Some(1), Some(2)>>>>,
     <<<<Some(1), Some(2)>>, <<Some(0), Some(1)>>>>,
     <<<<Some(2), Some(1)>>>>,
     <<<<Some(2), Some(1)>>, <<Some(1), None>>>>,
     <<<<None, Some(0)>>, <<Some(2), None>>>>}

\* A variant of TakeWhile::next that goes on past a record that fails the test.
take_while_mutant_filters(op, it, items) ==
    LET hits == {i \in (it.pos + 1)..Len(items) : test(op.cond, items[i])}
    IN  IF hits = {} THEN Exhausted(it, Len(items)) ELSE Yield(items[Least(hits)], it, Least(hits))

\* TakeDropMode::Take and Drop: Filter::next, with cond.test(s) and !cond.test(s).
filter_next(op, it, items) ==
    LET hits == {i \in (it.pos + 1)..Len(items) : test(op.cond, items[i]) = (op.mode = "Take")}
    IN  IF hits = {} THEN Exhausted(it, Len(items)) ELSE Yield(items[Least(hits)], it, Least(hits))

\* TakeDropMode::TakeWhile: TakeWhile::next.  The flag is set by the first
\* record that fails the test; that record is pulled from the source and lost.
take_while_next(op, it, items) ==
    IF it.flag \/ it.pos = Len(items) THEN Exhausted(it, it.pos)
    ELSE IF test(op.cond, items[it.pos + 1]) THEN Yield(items[it.pos + 1], it, it.pos + 1)
    ELSE Exhausted([it EXCEPT !.flag = TRUE], it.pos + 1)

\* TakeDropMode::DropWhile: SkipWhile::next.  The flag is set by the first
\* record that fails the test; every record from that one on is passed.
skip_while_next(op, it, items) ==
    LET hits == {i \in (it.pos + 1)..Len(items) : it.flag \/ ~test(op.cond, items[i])}
    IN  IF hits = {} THEN Exhausted(it, Len(items))
        ELSE Yield(items[Least(hits)], [it EXCEPT !.flag = TRUE], Least(hits))

TakeDropModes == {"Take", "Drop", "TakeWhile", "DropWhile"}
TakeDropConds ==
    {[yes |-> y, select |-> [kind |-> "Ascii", ascii |-> TRUE]] : y \in BOOLEAN}

\* A variant of the Peek stage that writes every record still in the source
\* when the first one is pulled.
peek_mutant_writes_ahead(op, it, items) ==
    IF it.pos = Len(items) THEN Exhausted(it, it.pos)
    ELSE [item |-> Some(items[it.pos + 1]), iter |-> [it EXCEPT !.pos = it.pos + 1],
          peeked |-> IF it.pos = 0 THEN items ELSE <<>>]

\* Op::Peek: Inspect::next.  The closure of op_inspect writes the record that
\* is passing (println!, or write! to the opened file), and the record goes on.
peek_next(op, it, items) ==
    IF it.pos = Len(items) THEN Exhausted(it, it.pos)
    ELSE [item |-> Some(items[it.pos + 1]), iter |-> [it EXCEPT !.pos = it.pos + 1],
          peeked |-> <<items[it.pos + 1]>>]

\* Num + Num: an Integer when both are, a Float otherwise.
num_add(a, b) ==
    LET den == IF a.den >= b.den THEN a.den ELSE b.den
    IN  [ok |-> TRUE, int |-> a.int /\ b.int,
         num |-> a.num * (den \div a.den) + b.num * (den \div b.den), den |-> den]

\* pipe.filter_map(|s| s.parse::<Num>().ok()).sum::<Num>(), from Integer 0.
RECURSIVE num_sum(_)
num_sum(items) ==
    IF items = <<>> THEN [ok |-> TRUE, int |-> TRUE, num |-> 0, den |-> 1]
    ELSE IF parse_num(items[Len(items)]).ok
    THEN num_add(num_sum(SubSeq(items, 1, Len(items) - 1)), parse_num(items[Len(items)]))
    ELSE num_sum(SubSeq(items, 1, Len(items) - 1))

\* The digits of a fraction num / den, without trailing zeros.
RECURSIVE fract_digits(_, _)
fract_digits(num, den) ==
    IF num = 0 THEN <<>> ELSE <<48 + ((num * 10) \div den)>> \o fract_digits((num * 10) % den, den)

\* f64::to_string of a Float with a fractional part
float_to_string(f) ==
    usize_to_string(f.num \div f.den) \o <<Ch.dot>> \o fract_digits(f.num % f.den, f.den)

\* A variant of the output of Sum that emits nothing when no record was summed.
sum_mutant_nothing_for_zero(acc) ==
    IF acc.num = 0 THEN <<>>
    ELSE IF acc.int THEN <<usize_to_string(acc.num)>>
    ELSE IF acc.num % acc.den = 0 THEN <<usize_to_string(acc.num \div acc.den)>>
    ELSE <<float_to_string(acc)>>

\* Op::Sum without a format: iter::once(out), where out is the Integer, the
\* Float as an Integer when its fractional part is 0, or the Float.
sum_out(acc) ==
    IF acc.int THEN <<usize_to_string(acc.num)>>
    ELSE IF acc.num % acc.den = 0 THEN <<usize_to_string(acc.num \div acc.den)>>
    ELSE <<float_to_string(acc)>>

SumItems == {<<Ch.d1>>, <<Ch.d3>>, <<Ch.x>>, <<Ch.d1, Ch.dot, Ch.d5>>}

OpStages ==
    {[kind |-> "Uniq", nocase |-> n] : n \in BOOLEAN}
    \cup {[kind |-> "Sort", sort_by |-> b, desc |-> d] : b \in SortBys, d \in BOOLEAN}
    \cup {[kind |-> "Join", join_info |-> j, batch |-> b] :
            j \in JoinInfos, b \in {None} \cup {Some(n) : n \in 1..MaxBatch}}
    \cup {[kind |-> "Slice", ranges |-> r] : r \in SliceRanges}
    \cup {[kind |-> "TakeDrop", mode |-> m, cond |-> c] : m \in TakeDropModes, c \in TakeDropConds}
    \cup {[kind |-> "Peek", to |-> "StdOut", ok |-> TRUE]}
    \cup {[kind |-> "Peek", to |-> "File", ok |-> k] : k \in BOOLEAN}
    \cup {[kind |-> "Sum", fmt |-> None]}

\* Op::wrap: the iterator it builds over the source.
wrap_stage(op, items, configs) ==
    IF op.kind = "Sort"
    THEN [pos |-> Len(items), seen |-> {}, flag |-> FALSE, buf |-> sort_stage(items, op, configs)]
    ELSE IF op.kind = "Join" /\ op.batch = None
    THEN [pos |-> Len(items), seen |-> {}, flag |-> FALSE,
          buf |-> <<join_format(op.join_info, items)>>]
    ELSE IF op.kind = "Sum"
    THEN [pos |-> Len(items), seen |-> {}, flag |-> FALSE, buf |-> sum_out(num_sum(items))]
    ELSE [pos |-> 0, seen |-> {}, flag |-> FALSE, buf |-> <<>>]

\* Pipe::next on the pipe Op::wrap returned.
stage_next(op, it, items, configs) ==
    CASE op.kind = "Uniq" -> uniq_next(op, it, items, configs)
      [] op.kind = "Sort" -> sort_next(it)
      [] op.kind = "Join" /\ op.batch # None -> chunk_join_next(op, it, items)
      [] op.kind = "Join" /\ op.batch = None -> sort_next(it)
      [] op.kind = "Slice" -> slice_next(op, it, items)
      [] op.kind = "TakeDrop" /\ op.mode \in {"Take", "Drop"} -> filter_next(op, it, items)
      [] op.kind = "TakeDrop" /\ op.mode = "TakeWhile" -> take_while_next(op, it, items)
      [] op.kind = "TakeDrop" /\ op.mode = "DropWhile" -> skip_while_next(op, it, items)
      [] op.kind = "Peek" -> peek_next(op, it, items)
      [] op.kind = "Sum" -> sort_next(it)

InitOp ==
    /\ oOp \in OpStages
    /\ oIn \in SeqsUpTo(IF oOp.kind = "Sum" THEN SumItems ELSE OpItems, MaxRecords)
    /\ oConfigs \in SUBSET {"Nocase"}
    /\ oPc = "wrap"
    /\ oIter = <<>> /\ oOut = <<>> /\ oPeek = <<>>
    /\ IdleCond /\ IdleErr /\ IdleRepl /\ IdleRun /\ IdleArgs /\ IdleToken /\ IdleTrim /\ IdleInput

\* run(): pipe = op.wrap(pipe, configs).  A Peek whose file cannot be opened
\* ends the process with OpenFileErr.
OpWrap ==
    /\ oPc = "wrap"
    /\ oIter' = wrap_stage(oOp, oIn, oConfigs)
    /\ oPc' = IF oOp.kind = "Peek" /\ ~oOp.ok THEN "aborted" ELSE "pull"
    /\ UNCHANGED <<oIn, oOp, oConfigs, oOut, oPeek>>
    /\ UNCHANGED othersOp

\* The consumer calls next() once.
OpPull ==
    /\ oPc = "pull"
    /\ LET r == stage_next(oOp, oIter, oIn, oConfigs)
       IN  /\ oIter' = r.iter
           /\ oPeek' = oPeek \o r.peeked
           /\ oOut' = IF r.item = None THEN oOut ELSE Append(oOut, CHOOSE i \in r.item : TRUE)
           /\ oPc' = IF r.item = None THEN "done" ELSE "pull"
    /\ UNCHANGED <<oIn, oOp, oConfigs>>
    /\ UNCHANGED othersOp

\* The consumer drops the pipe without pulling further, as the take_while of a
\* following `take while` stage does after its first non-match.
OpDrop ==
    /\ oPc = "pull"
    /\ oPc' = "stopped"
    /\ UNCHANGED <<oIn, oOp, oConfigs, oIter, oOut, oPeek>>
    /\ UNCHANGED othersOp

NextOp == OpWrap \/ OpPull \/ OpDrop

SpecOp == InitOp /\ [][NextOp]_vars

\* The dedup key of a record as the specification words it: the record text, or
\* its case-folded form when nocase is in effect.
DedupKey(item) == IF is_nocase(oOp.nocase, oConfigs) THEN to_lowercase(item) ELSE item
FirstOccurrences == {i \in 1..Len(oIn) : \A j \in 1..(i - 1) : DedupKey(oIn[j]) # DedupKey(oIn[i])}

\* C12: the output of Uniq holds no two records with the same dedup key, and it
\* is exactly the subsequence of the first occurrences of each key, each in its
\* original form and in input order.
C12_UniqFirstOccurrences ==
    (oOp.kind = "Uniq" /\ oPc = "done") =>
        /\ \A i, j \in 1..Len(oOut) : i # j => DedupKey(oOut[i]) # DedupKey(oOut[j])
        /\ oOut = at_indices(oIn, FirstOccurrences)

\* C12 on records of ASCII characters only, where the case-folded form and the
\* ASCII upper-cased form of the code give the same classes of records.
IsAscii(item) == \A i \in 1..Len(item) : item[i] < 128
C12_UniqFirstOccurrencesAscii ==
    (oOp.kind = "Uniq" /\ oPc = "done" /\ \A i \in 1..Len(oIn) : IsAscii(oIn[i])) =>
        /\ \A i, j \in 1..Len(oOut) : i # j => DedupKey(oOut[i]) # DedupKey(oOut[j])
        /\ oOut = at_indices(oIn, FirstOccurrences)

\* The input (output) positions of the records that have the sort key of record r.
InWithKeyOf(r) ==
    {i \in 1..Len(oIn) : sort_key(oOp.sort_by, oIn[i], oConfigs) = sort_key(oOp.sort_by, r, oConfigs)}
OutWithKeyOf(r) ==
    {i \in 1..Len(oOut) : sort_key(oOp.sort_by, oOut[i], oConfigs) = sort_key(oOp.sort_by, r, oConfigs)}

\* C13: numeric and text Sort are stable in both directions: the records with
\* equal sort keys come out in the relative order they went in, with and
\* without desc.
C13_SortIsStable ==
    (oOp.kind = "Sort" /\ oPc = "done") =>
        \A r \in Range(oIn) : at_indices(oOut, OutWithKeyOf(r)) = at_indices(oIn, InWithKeyOf(r))

\* A descending sort that moved records, and kept two different records with
\* one key in their input order.
C13_Witness ==
    /\ oOp.kind = "Sort" /\ oOp.desc /\ oPc = "done" /\ oOut # oIn
    /\ \E r \in Range(oIn) : Cardinality(Range(at_indices(oOut, OutWithKeyOf(r)))) = 2

ThreeXOne == <<<<Ch.d3>>, <<Ch.x>>, <<Ch.d1>>>>
PlainNumAsc ==
    /\ oOp.kind = "Sort" /\ ~oOp.desc /\ oOp.sort_by.kind = "Num"
    /\ oOp.sort_by.def_integer = None /\ oOp.sort_by.def_float = None

\* C14 as stated: ascending numeric Sort without a default, on the records
\* ["3","x","1"], yields ["3","1","x"].
C14_ThreeXOneAsStated ==
    (PlainNumAsc /\ oIn = ThreeXOne /\ oPc = "done") => oOut = <<<<Ch.d3>>, <<Ch.d1>>, <<Ch.x>>>>

\* C14: ascending numeric Sort without a default, on the records ["3","x","1"],
\* yields ["1","3","x"]: the numbers in ascending order, the unparseable record
\* (keyed by the maximum value) last.
C14_ThreeXOne ==
    (PlainNumAsc /\ oIn = ThreeXOne /\ oPc = "done") => oOut = <<<<Ch.d1>>, <<Ch.d3>>, <<Ch.x>>>>

C14_Witness == PlainNumAsc /\ oIn = ThreeXOne /\ oPc = "done" /\ Len(oOut) = 3

BatchSize == CHOOSE b \in oOp.batch : TRUE
Chunk(i) ==
    SubSeq(oIn, i * BatchSize + 1,
           IF (i + 1) * BatchSize < Len(oIn) THEN (i + 1) * BatchSize ELSE Len(oIn))

\* C15: Join with batch size b > 0 over n records emits ceil(n/b) records; the
\* i-th is prefix + (records i*b .. min((i+1)*b, n)-1 joined by the delimiter)
\* + postfix, the last chunk is not padded, and no record comes out of an
\* empty input.
C15_ChunkJoin ==
    (oOp.kind = "Join" /\ oOp.batch # None /\ oPc = "done") =>
        /\ Len(oOut) = (Len(oIn) + BatchSize - 1) \div BatchSize
        /\ \A i \in 0..(Len(oOut) - 1) :
              oOut[i + 1] = oOp.join_info.prefix \o join(Chunk(i), oOp.join_info.delimiter)
                              \o oOp.join_info.postfix

\* Three records joined two by two inside brackets: a full chunk and a partial one.
C15_Witness ==
    /\ oOp.kind = "Join" /\ oOp.batch = Some(2) /\ oPc = "done"
    /\ Len(oIn) = 3 /\ Len(oOut) = 2 /\ oOp.join_info.prefix # <<>>
    /\ oOut[2] = oOp.join_info.prefix \o oIn[3] \o oOp.join_info.postfix

\* The 1-based positions of the input records whose 0-based index lies in at
\* least one inclusive range with start <= end.
RangeStart(range) == IF range[1] = None THEN 0 ELSE CHOOSE s \in range[1] : TRUE
RangeEnd(range) == IF range[2] = None THEN Len(oIn) ELSE CHOOSE e \in range[2] : TRUE
Sliced ==
    {i \in 1..Len(oIn) :
        \E k \in 1..Len(oOp.ranges) :
            /\ RangeStart(oOp.ranges[k]) <= RangeEnd(oOp.ranges[k])
            /\ RangeStart(oOp.ranges[k]) <= i - 1 /\ i - 1 <= RangeEnd(oOp.ranges[k])}

\* C16: Slice outputs exactly the input records whose 0-based index lies in at
\* least one given inclusive range with start <= end, each once (also when
\* ranges overlap) and in input order; a range with start > end selects
\* nothing and an empty range list gives an empty output.
C16_SliceByIndex ==
    (oOp.kind = "Slice" /\ oPc = "done") =>
        /\ oOut = at_indices(oIn, Sliced)
        /\ (oOp.ranges = <<>> => oOut = <<>>)

\* Two overlapping ranges over three records: the record in both comes out once.
C16_Witness ==
    /\ oOp.kind = "Slice" /\ oPc = "done"
    /\ oOp.ranges = <<<<Some(0), Some(1)>>, <<Some(1), Some(2)>>>>
    /\ Len(oIn) = 3 /\ oOut = oIn

\* The length of the longest prefix of the input in which every record
\* satisfies the condition of the stage.
MatchingPrefix ==
    LET fails == {i \in 1..Len(oIn) : ~test(oOp.cond, oIn[i])}
    IN  IF fails = {} THEN Len(oIn) ELSE Least(fails) - 1

\* C18: `take while` outputs exactly the longest prefix of the input in which
\* every record satisfies the condition and then ends; `drop while` outputs
\* exactly the rest, from the first record that does not satisfy it; the two
\* outputs concatenated are the input.
C18_WhileSplitsTheInput ==
    (oOp.kind = "TakeDrop" /\ oPc = "done") =>
        /\ oOp.mode = "TakeWhile" => oOut = SubSeq(oIn, 1, MatchingPrefix)
        /\ oOp.mode = "DropWhile" => oOut = SubSeq(oIn, MatchingPrefix + 1, Len(oIn))

\* A `take while` that ended at a non-match with a matching record behind it.
C18_Witness ==
    /\ oOp.kind = "TakeDrop" /\ oOp.mode = "TakeWhile" /\ oPc = "done"
    /\ Len(oIn) = 3 /\ MatchingPrefix = 1 /\ test(oOp.cond, oIn[3]) /\ oOut = <<oIn[1]>>

\* C19: Peek leaves the stream unchanged: the records delivered downstream of
\* it are the records it received, and the peek sink holds exactly the records
\* the consumer pulled, each once and in that order.
C19_PeekIsTransparent ==
    (oOp.kind = "Peek" /\ oPc \in {"pull", "done", "stopped"}) =>
        /\ oOut = SubSeq(oIn, 1, oIter.pos)
        /\ oPeek = oOut
        /\ (oPc = "done" => oOut = oIn)

\* The consumer pulled one record of three and dropped the pipe: one line written.
C19_Witness ==
    /\ oOp.kind = "Peek" /\ oPc = "stopped" /\ Len(oIn) = 3
    /\ oOut = <<oIn[1]>> /\ oPeek = <<oIn[1]>>

\* The records of the source that are numbers, and ten times their total.
Summed == {i \in 1..Len(oIn) : parse_num(oIn[i]).ok}
RECURSIVE TenthsOf(_)
TenthsOf(I) ==
    IF I = {} THEN 0
    ELSE LET i == CHOOSE j \in I : TRUE
         IN  (parse_num(oIn[i]).num * 10) \div parse_num(oIn[i]).den + TenthsOf(I \ {i})

\* C22: Sum emits exactly one record, the sum of the records that parse as
\* numbers; the other records count as zero and are no error, so no number at
\* all gives 0, and the sum is an Integer unless a summed record is a Float.
C22_SumOfTheNumbers ==
    (oOp.kind = "Sum" /\ oPc \in {"pull", "done", "stopped", "aborted"}) =>
        /\ oPc # "aborted"
        /\ oPc = "done" =>
            /\ Len(oOut) = 1
            /\ parse_num(oOut[1]).ok
            /\ parse_num(oOut[1]).num * 10 = TenthsOf(Summed) * parse_num(oOut[1]).den
            /\ (\A i \in Summed : parse_num(oIn[i]).int) => parse_num(oOut[1]).int
            /\ Summed = {} => oOut = <<<<48>>>>

\* An Integer, a Float and a record that is no number were summed.
C22_Witness ==
    /\ oOp.kind = "Sum" /\ oPc = "done" /\ Len(oIn) = 3 /\ Cardinality(Summed) = 2
    /\ \E i \in Summed : ~parse_num(oIn[i]).int
    /\ ~parse_num(oOut[1]).int

(***************************************************************************)
(* SpecInput: the command text of an input is parsed, Input::try_into      *)
(* builds the source iterator of the pipe, and a consumer pulls records.   *)
(***************************************************************************)
IntegerBits == 4    \* the width of Integer in the model (i64 in the source)
MaxReads == 2       \* read results of standard input and of a file
MaxPulls == 9       \* records the consumer pulls before it drops the pipe

\* Integer::MAX, Integer::MIN and two's complement wrapping
IntegerMax == 2^(IntegerBits - 1) - 1
IntegerMin == 0 - 2^(IntegerBits - 1)
overflows(n) == n < IntegerMin \/ n > IntegerMax
wrapping(n) == ((n - IntegerMin) % 2^IntegerBits) + IntegerMin

\* Integer::to_string: a minus sign for a negative value, then the digits.
integer_to_string(n) == IF n < 0 THEN <<45>> \o usize_to_string(0 - n) ELSE usize_to_string(n)

\* range_to_iter: RangeIter { start, end, step: abs(step), next: start,
\* next_back: end }, reversed for a negative step.  Integer::abs overflows for
\* Integer::MIN: a panic with overflow checks, Integer::MIN without.
range_to_iter(start, end, step, build) ==
    [kind |-> "Range", start |-> start, end |-> end,
     step |-> IF step = IntegerMin THEN IntegerMin ELSE IF step < 0 THEN 0 - step ELSE step,
     next |-> start, next_back |-> end, rev |-> step < 0,
     panic |-> step = IntegerMin /\ build = "debug"]

\* A variant of RangeIter::next that ends the range when the step is 0.
range_iter_mutant_zero_step_ends(it, build) ==
    IF it.step # 0 /\ it.next >= it.start /\ it.next <= it.end /\ it.next <= it.next_back
    THEN IF overflows(it.next + it.step) /\ build = "debug"
         THEN [item |-> None, iter |-> it, panic |-> TRUE]
         ELSE [item |-> Some(it.next), iter |-> [it EXCEPT !.next = wrapping(it.next + it.step)],
               panic |-> FALSE]
    ELSE [item |-> None, iter |-> it, panic |-> FALSE]

\* RangeIter::next: `self.next += self.step` panics on overflow with overflow
\* checks, before the value is returned, and wraps without them.
range_iter_next(it, build) ==
    IF it.next >= it.start /\ it.next <= it.end /\ it.next <= it.next_back
    THEN IF overflows(it.next + it.step) /\ build = "debug"
         THEN [item |-> None, iter |-> it, panic |-> TRUE]
         ELSE [item |-> Some(it.next), iter |-> [it EXCEPT !.next = wrapping(it.next + it.step)],
               panic |-> FALSE]
    ELSE [item |-> None, iter |-> it, panic |-> FALSE]

\* RangeIter::next_back
range_iter_next_back(it, build) ==
    IF it.next_back >= it.start /\ it.next_back <= it.end /\ it.next_back >= it.next
    THEN IF overflows(it.next_back - it.step) /\ build = "debug"
         THEN [item |-> None, iter |-> it, panic |-> TRUE]
         ELSE [item |-> Some(it.next_back),
               iter |-> [it EXCEPT !.next_back = wrapping(it.next_back - it.step)], panic |-> FALSE]
    ELSE [item |-> None, iter |-> it, panic |-> FALSE]

\* next() of what range_to_iter returned: Rev::next is next_back.
range_next(it, build) == IF it.rev THEN range_iter_next_back(it, build) ELSE range_iter_next(it, build)

\* A read of a line: Ok(line) or Err.
ReadOk(line) == [ok |-> TRUE, line |-> line]
ReadErr == [ok |-> FALSE, line |-> <<>>]

\* next() of stdin().lock().lines().take_while(Result::is_ok).map(unwrap):
\* the first Err sets the flag of TakeWhile, and next() returns None from then on.
std_in_next(it, reads) ==
    IF it.flag \/ it.pos >= Len(reads) THEN [item |-> None, iter |-> it, err |-> "none"]
    ELSE IF reads[it.pos + 1].ok
    THEN [item |-> Some(reads[it.pos + 1].line), iter |-> [it EXCEPT !.pos = it.pos + 1], err |-> "none"]
    ELSE [item |-> None, iter |-> [it EXCEPT !.pos = it.pos + 1, !.flag = TRUE], err |-> "none"]

\* next() of the File source: the lines of the current file, then File::open of
\* the next one.  A file that does not open and a line that cannot be read are
\* skipped with skip_err, and terminate the process without it.
RECURSIVE file_lines_next(_, _, _)
file_lines_next(it, disk, configs) ==
    IF it.fi >= 1 /\ it.fi <= Len(it.files) /\ disk[it.files[it.fi]].ok
        /\ it.li < Len(disk[it.files[it.fi]].reads)
    THEN IF disk[it.files[it.fi]].reads[it.li + 1].ok
         THEN [item |-> Some(disk[it.files[it.fi]].reads[it.li + 1].line),
               iter |-> [it EXCEPT !.li = it.li + 1], err |-> "none"]
         ELSE IF skip_err(configs) THEN file_lines_next([it EXCEPT !.li = it.li + 1], disk, configs)
         ELSE [item |-> None, iter |-> [it EXCEPT !.li = it.li + 1], err |-> "ReadFromFileErr"]
    ELSE IF it.fi >= Len(it.files)
    THEN [item |-> None, iter |-> [it EXCEPT !.fi = Len(it.files) + 1, !.li = 0], err |-> "none"]
    ELSE IF disk[it.files[it.fi + 1]].ok \/ skip_err(configs)
    THEN file_lines_next([it EXCEPT !.fi = it.fi + 1, !.li = 0], disk, configs)
    ELSE [item |-> None, iter |-> [it EXCEPT !.fi = it.fi + 1, !.li = 0], err |-> "OpenFileErr"]

\* The end of a parsed Gen: Integer::MAX when it was left out.
gen_end_value(values) == IF values.end = {} THEN IntegerMax ELSE CHOOSE e \in values.end : TRUE

\* The last value a Gen may yield: the end when it is marked inclusive with
\* `=`, the value before it otherwise.
gen_end_bound(values) == IF values.closed THEN gen_end_value(values) ELSE gen_end_value(values) - 1

\* Input::try_into: the iterator of the pipe.
input_try_into(input, build) ==
    CASE input.kind = "Gen" ->
            range_to_iter(input.values.start, gen_end_bound(input.values), input.values.step, build)
      [] input.kind = "File" -> [kind |-> "File", files |-> input.values, fi |-> 0, li |-> 0, panic |-> FALSE]
      [] OTHER -> [kind |-> "StdIn", pos |-> 0, flag |-> FALSE, panic |-> FALSE]

\* Pipe::next of the source.
input_next(it, stdin, disk, configs, build) ==
    CASE it.kind = "Range" ->
            (LET r == range_next(it, build) IN
             [item |-> IF r.item = None THEN None ELSE Some(integer_to_string(CHOOSE x \in r.item : TRUE)),
              iter |-> r.iter, err |-> "none", panic |-> r.panic])
      [] it.kind = "File" -> file_lines_next(it, disk, configs) @@ [panic |-> FALSE]
      [] OTHER -> std_in_next(it, stdin) @@ [panic |-> FALSE]

\* The decimal text of an integer, as it is typed on the command line.
DigitChars == <<"0", "1", "2", "3", "4", "5", "6", "7", "8", "9">>
RECURSIVE usize_text(_)
usize_text(n) == IF n < 10 THEN <<DigitChars[n + 1]>> ELSE Append(usize_text(n \div 10), DigitChars[(n % 10) + 1])
integer_text(n) == IF n < 0 THEN <<"-">> \o usize_text(0 - n) ELSE usize_text(n)

GenStarts == {0, IntegerMax - 2, 0 - (2^(IntegerBits - 2) + 1)}
GenEnds == {2, 3, IntegerMax}
GenSteps == {1, 2, 0 - 1, 0 - 2, 2^(IntegerBits - 2)}

\* gen <start>  gen <start>,[=]<end>  gen <start>,[=]<end>,<step>
GenTexts ==
    {<<"g", "e", "n", " ">> \o integer_text(s) \o <<" ">> : s \in GenStarts}
        \cup {<<"g", "e", "n", " ">> \o integer_text(s) \o <<",">> \o c \o integer_text(e) \o <<" ">> :
                s \in GenStarts, c \in {<<>>, <<"=">>}, e \in GenEnds}
        \cup {<<"g", "e", "n", " ">> \o integer_text(s) \o <<",">> \o c \o integer_text(e)
                    \o <<",">> \o integer_text(t) \o <<" ">> :
                s \in GenStarts, c \in {<<>>, <<"=">>}, e \in GenEnds, t \in GenSteps}

FileNames == {<<"a">>, <<"b">>}
FileTexts == {<<"f", "i", "l", "e", " ", "a", " ">>,
              <<"f", "i", "l", "e", " ", "[", " ", "a", " ", "b", " ", "]", " ">>}
ReadResults == {ReadOk(<<Ch.a>>), ReadErr}
DiskFiles ==
    {[ok |-> FALSE, reads |-> <<>>]} \cup {[ok |-> TRUE, reads |-> r] : r \in SeqsUpTo(ReadResults, MaxReads)}
NoDisk == [f \in FileNames |-> [ok |-> FALSE, reads |-> <<>>]]

\* Input::Gen values with the step 0, which parse_range_in_gen does not let
\* through: built with Input::new_gen.
ZeroStepGens ==
    {TInput("Gen", [start |-> s, end |-> {e}, closed |-> c, step |-> 0]) :
        s \in {0, 3}, e \in {2, 3}, c \in BOOLEAN}

InitInput ==
    /\ \/ /\ iText \in GenTexts
          /\ iStdin = <<>>
          /\ iDisk = NoDisk
          /\ iConfigs = {}
          /\ iPc = "parse"
          /\ iInput = <<>>
       \/ /\ iText = <<>>
          /\ iStdin = <<>>
          /\ iDisk = NoDisk
          /\ iConfigs = {}
          /\ iPc = "try_into"
          /\ iInput \in ZeroStepGens
       \/ /\ iText = <<"i", "n", " ">>
          /\ iStdin \in SeqsUpTo(ReadResults, MaxReads)
          /\ iDisk = NoDisk
          /\ iConfigs = {}
          /\ iPc = "parse"
          /\ iInput = <<>>
       \/ /\ iText \in FileTexts
          /\ iStdin = <<>>
          /\ iDisk \in [FileNames -> DiskFiles]
          /\ iConfigs \in SUBSET {"SkipErr"}
          /\ iPc = "parse"
          /\ iInput = <<>>
    /\ iBuild \in {"debug", "release"}
    /\ iIter = <<>>
    /\ iOut = <<>>
    /\ iErr = "none"
    /\ IdleCond /\ IdleErr /\ IdleRepl /\ IdleRun /\ IdleArgs /\ IdleToken /\ IdleTrim /\ IdleOp

\* parse_input(text)
InputParse ==
    /\ iPc = "parse"
    /\ token_parse_input(iText).ok
    /\ iInput' = token_parse_input(iText).val
    /\ iPc' = "try_into"
    /\ UNCHANGED <<iText, iBuild, iStdin, iDisk, iConfigs, iIter, iOut, iErr, othersInput>>

\* input.try_into(configs)
InputTryInto ==
    /\ iPc = "try_into"
    /\ iIter' = input_try_into(iInput, iBuild)
    /\ iPc' = IF input_try_into(iInput, iBuild).panic THEN "panicked" ELSE "pull"
    /\ UNCHANGED <<iText, iBuild, iStdin, iDisk, iConfigs, iInput, iOut, iErr, othersInput>>

\* pipe.next(): a record, the end of the pipe, or the end of the process.
InputPull ==
    /\ iPc = "pull"
    /\ Len(iOut) < MaxPulls
    /\ LET r == input_next(iIter, iStdin, iDisk, iConfigs, iBuild) IN
        /\ iIter' = r.iter
        /\ iOut' = IF r.item = None THEN iOut ELSE Append(iOut, CHOOSE x \in r.item : TRUE)
        /\ iErr' = r.err
        /\ iPc' = IF r.panic THEN "panicked"
                  ELSE IF r.err # "none" THEN "terminated"
                  ELSE IF r.item = None THEN "done"
                  ELSE "pull"
    /\ UNCHANGED <<iText, iBuild, iStdin, iDisk, iConfigs, iInput, othersInput>>

NextInput == InputParse \/ InputTryInto \/ InputPull

SpecInput == InitInput /\ [][NextInput]_vars

IsPrefixOf(s, t) == Len(s) <= Len(t) /\ SubSeq(t, 1, Len(s)) = s

\* start, start + step, start + 2 * step, ... up to the end (without it when it
\* is not inclusive), as the records of the pipe.
RECURSIVE Progression(_, _, _, _)
Progression(v, end, included, step) ==
    IF v > end \/ (v = end /\ ~included) THEN <<>>
    ELSE <<integer_to_string(v)>> \o Progression(v + step, end, included, step)

GenPositive == iPc \in {"pull", "done", "panicked"} /\ iInput.kind = "Gen" /\ iInput.values.step > 0
GenExpected ==
    Progression(iInput.values.start, gen_end_value(iInput.values), iInput.values.closed, iInput.values.step)
GenAsExpected ==
    /\ iPc # "panicked"
    /\ IsPrefixOf(iOut, GenExpected)
    /\ iPc = "done" => iOut = GenExpected

\* C17: a Gen with a positive step yields start, start+step, start+2*step, ...
\* and stops before the end when the end is exclusive and at the end when it is
\* marked inclusive with `=`.
C17_GenRange == GenPositive => GenAsExpected

\* C17, for the ranges whose last value plus the step is still an Integer.
C17_GenRangeBelowMax ==
    (GenPositive /\ gen_end_bound(iInput.values) + iInput.values.step <= IntegerMax) => GenAsExpected
C17_ExclusiveWitness ==
    /\ iPc = "done" /\ iInput.kind = "Gen" /\ ~iInput.values.closed
    /\ iInput.values.step = 2 /\ iOut = <<integer_to_string(0), integer_to_string(2)>>
C17_InclusiveWitness ==
    /\ iPc = "done" /\ iInput.kind = "Gen" /\ iInput.values.closed
    /\ iInput.values.step = 1 /\ Len(iOut) = 3 /\ iOut[3] = integer_to_string(2)

\* A read of standard input that the iterator has made returned Err.
StdInReadFailed == \E i \in 1..iIter.pos : ~iStdin[i].ok

\* A read of an input file that the iterator has made returned Err.
FileReadFailed ==
    \E k \in 1..Len(iIter.files) :
        /\ k <= iIter.fi
        /\ iDisk[iIter.files[k]].ok
        /\ \E j \in 1..(IF k < iIter.fi THEN Len(iDisk[iIter.files[k]].reads) ELSE iIter.li) :
                ~iDisk[iIter.files[k]].reads[j].ok

ReadFailed ==
    \/ iInput.kind = "StdIn" /\ StdInReadFailed
    \/ iInput.kind = "File" /\ FileReadFailed

\* C20: a read error on standard input or on an input file is never treated as
\* the end of the input: the run does not complete successfully after a read
\* has failed.
C20_ReadErrorIsNotEndOfInput ==
    (iPc = "done" /\ iInput.kind \in {"StdIn", "File"} /\ ~skip_err(iConfigs)) => ~ReadFailed

\* C20, for the input files alone: without skip_err the first read that fails
\* terminates the process with ReadFromFileErr.
C20_FileReadErrorTerminates ==
    (iPc \in {"pull", "done", "terminated"} /\ iInput.kind = "File" /\ ~skip_err(iConfigs))
        => (FileReadFailed <=> (iPc = "terminated" /\ iErr = "ReadFromFileErr"))
C20_FileWitness == iPc = "terminated" /\ iInput.kind = "File" /\ iErr = "ReadFromFileErr" /\ Len(iOut) = 1

RECURSIVE Reversed(_)
Reversed(s) == IF s = <<>> THEN <<>> ELSE Append(Reversed(Tail(s)), Head(s))

\* C27: for a negative step, Gen yields the values that the same start and end
\* yield with the positive step of equal magnitude, in reverse order (here for
\* an end that is marked inclusive).
C27_NegativeStepReverses ==
    (iPc = "done" /\ iInput.kind = "Gen" /\ iInput.values.step < 0 /\ iInput.values.closed)
        => iOut = Reversed(Progression(iInput.values.start, gen_end_value(iInput.values), TRUE,
                                       0 - iInput.values.step))

\* C27, when the end minus the start is a multiple of the step.
C27_NegativeStepReversesMultiples ==
    (/\ iPc = "done" /\ iInput.kind = "Gen" /\ iInput.values.step < 0
     /\ (gen_end_bound(iInput.values) - iInput.values.start) % (0 - iInput.values.step) = 0)
        => iOut = Reversed(Progression(iInput.values.start, gen_end_bound(iInput.values), TRUE,
                                       0 - iInput.values.step))

GenZeroStep ==
    iPc \in {"pull", "done", "panicked", "terminated"} /\ iInput.kind = "Gen" /\ iInput.values.step = 0

\* C28: with the step 0 and start <= end the generator never ends and every
\* pull yields the start value; with start > end it yields nothing.
C28_ZeroStepRepeatsStart ==
    GenZeroStep =>
        IF iIter.start <= iIter.end
        THEN iPc = "pull" /\ \A k \in 1..Len(iOut) : iOut[k] = integer_to_string(iIter.start)
        ELSE iOut = <<>> /\ iPc \in {"pull", "done"}
C28_Witness == GenZeroStep /\ iIter.start <= iIter.end /\ Len(iOut) >= 3

GenUp ==
    /\ iPc \in {"pull", "done", "panicked"} /\ iInput.kind = "Gen" /\ iInput.values.step > 0
    /\ iIter.start <= iIter.end

\* C30: RangeIter never overflows: for start <= end <= Integer::MAX and a step
\* above 0 the cursor is the start plus the step for every value yielded, no
\* update panics, and the values yielded go up by the step and stay in
\* [start, end].
C30_CursorNeverOverflows ==
    GenUp =>
        /\ iPc # "panicked"
        /\ iIter.next = iIter.start + Len(iOut) * iIter.step
        /\ \A k \in 1..Len(iOut) :
                /\ iOut[k] = integer_to_string(iIter.start + (k - 1) * iIter.step)
                /\ iIter.start + (k - 1) * iIter.step <= iIter.end

====
